---------------------------- MODULE Spec2Model ----------------------------
(***************************************************************************)
(* The tabular data engine (DataTable) of the CRM dashboard, with the      *)
(* AdvancedFilter panel that feeds it.                                      *)
(*                                                                          *)
(* Source: src/src/components/common/filters/TextFilter.tsx (DataTable,     *)
(* lines 78-370) and src/src/components/auth/AuthPage.tsx (AdvancedFilter,  *)
(* lines 184-249).                                                          *)
(* The toast store of src/src/hooks/use-toast.ts is modelled next to it.    *)
(*                                                                          *)
(* JavaScript values are modelled as tagged records.  A string is the      *)
(* sequence of its UTF-16 code units, so that toLowerCase, includes, the   *)
(* relational operators, parseFloat and Date parsing are computed and not  *)
(* assumed.  Numbers are integers; NaN is a value of its own.              *)
(*                                                                          *)
(* Array.prototype.sort is modelled as two engines run it, because the      *)
(* comparator of the table is not a consistent one and the order of the     *)
(* result is then the engine's choice.                                      *)
(***************************************************************************)
EXTENDS Integers, Sequences, FiniteSets, TLC

-----------------------------------------------------------------------------
(* JavaScript values *)

Undefined == [t |-> "undefined", n |-> 0, s |-> <<>>]
Null      == [t |-> "null", n |-> 0, s |-> <<>>]
NaN       == [t |-> "nan", n |-> 0, s |-> <<>>]
Num(k)    == [t |-> "number", n |-> k, s |-> <<>>]
Str(cs)   == [t |-> "string", n |-> 0, s |-> cs]
Bool(b)   == [t |-> "boolean", n |-> IF b THEN 1 ELSE 0, s |-> <<>>]
\* a Date object: ts is its time value <<days since the epoch, ms of the day>>,
\* or <<>> for an Invalid Date
DateObj(ts) == [t |-> "date", n |-> 0, s |-> ts]
\* the object {a, b} of a range filter ({min, max} or {from, to})
Range(a, b) == [t |-> "range", lo |-> a, hi |-> b]
\* an array of scalars (the value of a multiSelect filter)
List(items) == [t |-> "array", items |-> items]

IsNullish(v) == v.t \in {"undefined", "null"}

\* ToBoolean: the falsy values are undefined, null, NaN, 0, "" and false
Truthy(v) ==
    CASE v.t \in {"undefined", "null", "nan"} -> FALSE
      [] v.t = "number"  -> v.n # 0
      [] v.t = "string"  -> v.s # <<>>
      [] v.t = "boolean" -> v.n = 1
      [] OTHER -> TRUE

-----------------------------------------------------------------------------
(* Strings *)

IsDigit(c) == c >= 48 /\ c <= 57

RECURSIVE DigitsOf(_)
\* the decimal digits of a natural number
DigitsOf(k) == IF k < 10 THEN <<48 + k>> ELSE Append(DigitsOf(k \div 10), 48 + (k % 10))

\* Number.prototype.toString for an integer
NumToString(k) == IF k < 0 THEN <<45>> \o DigitsOf(0 - k) ELSE DigitsOf(k)

\* String(v) for a scalar v
ToStr(v) ==
    CASE v.t = "undefined" -> <<117, 110, 100, 101, 102, 105, 110, 101, 100>>
      [] v.t = "null"      -> <<110, 117, 108, 108>>
      [] v.t = "nan"       -> <<78, 97, 78>>
      [] v.t = "number"    -> NumToString(v.n)
      [] v.t = "string"    -> v.s
      [] v.t = "boolean"   -> IF v.n = 1 THEN <<116, 114, 117, 101>>
                                         ELSE <<102, 97, 108, 115, 101>>
      [] OTHER -> <<91, 111, 98, 106, 101, 99, 116, 93>>

\* String.prototype.toLowerCase on the ASCII letters
ToLowerCase(cs) == [i \in 1..Len(cs) |-> IF cs[i] >= 65 /\ cs[i] <= 90 THEN cs[i] + 32 ELSE cs[i]]

\* String.prototype.includes
Includes(hay, needle) ==
    \E i \in 0..(Len(hay) - Len(needle)) :
        \A j \in 1..Len(needle) : hay[i + j] = needle[j]

\* a < b on strings: code unit by code unit, a proper prefix is smaller
StrLess(a, b) ==
    \E i \in 1..(Len(b)) :
        /\ \A j \in 1..(i - 1) : j <= Len(a) /\ a[j] = b[j]
        /\ i - 1 <= Len(a)
        /\ (i > Len(a) \/ a[i] < b[i])

-----------------------------------------------------------------------------
(* Numbers *)

\* typeof v === 'number': NaN is of type number
IsNumeric(v) == v.t \in {"number", "nan"}

\* the white space and line terminators that parseFloat and Number skip
IsWhiteSpace(c) ==
    \/ c \in {9, 10, 11, 12, 13, 32, 160, 5760, 8232, 8233, 8239, 8287, 12288, 65279}
    \/ (c >= 8192 /\ c <= 8202)

RECURSIVE SpaceRun(_, _)
\* the length of the run of white space of cs that starts at index i
SpaceRun(cs, i) == IF i <= Len(cs) /\ IsWhiteSpace(cs[i]) THEN 1 + SpaceRun(cs, i + 1) ELSE 0

RECURSIVE SpaceRunBack(_, _)
\* the length of the run of white space of cs that ends at index i
SpaceRunBack(cs, i) == IF i >= 1 /\ IsWhiteSpace(cs[i]) THEN 1 + SpaceRunBack(cs, i - 1) ELSE 0

\* String.prototype.trim
Trim(cs) ==
    LET front == SpaceRun(cs, 1)
    IN  IF front = Len(cs) THEN <<>>
        ELSE SubSeq(cs, front + 1, Len(cs) - SpaceRunBack(cs, Len(cs)))

RECURSIVE DigitRun(_, _)
\* the length of the run of decimal digits of cs that starts at index i
DigitRun(cs, i) == IF i <= Len(cs) /\ IsDigit(cs[i]) THEN 1 + DigitRun(cs, i + 1) ELSE 0

RECURSIVE DigitsValue(_, _, _)
\* the value of the k digits of cs that start at index i
DigitsValue(cs, i, k) ==
    IF k = 0 THEN 0 ELSE DigitsValue(cs, i, k - 1) * 10 + (cs[i + k - 1] - 48)

\* a mutant of ParseFloatStr: 0 when there is no digit
ParseFloatStrOrZero(cs) ==
    LET start  == SpaceRun(cs, 1) + 1
        signed == Len(cs) >= start /\ cs[start] \in {43, 45}
        first  == IF signed THEN start + 1 ELSE start
        k      == DigitRun(cs, first)
    IN  IF k = 0 THEN Num(0)
        ELSE IF signed /\ cs[start] = 45 THEN Num(0 - DigitsValue(cs, first, k))
        ELSE Num(DigitsValue(cs, first, k))

\* parseFloat of a string: leading white space is skipped, then an
\* optional sign and the longest run of digits that follows it are read;
\* NaN when there is no digit (integers only)
ParseFloatStr(cs) ==
    LET start  == SpaceRun(cs, 1) + 1
        signed == Len(cs) >= start /\ cs[start] \in {43, 45}
        first  == IF signed THEN start + 1 ELSE start
        k      == DigitRun(cs, first)
    IN  IF k = 0 THEN NaN
        ELSE IF signed /\ cs[start] = 45 THEN Num(0 - DigitsValue(cs, first, k))
        ELSE Num(DigitsValue(cs, first, k))

\* Number(cs) of a string: white space is trimmed off both ends; the empty
\* string is 0; an optional sign and digits, nothing else, is that number;
\* anything else NaN (decimal integers only)
StringToNumber(cs) ==
    LET body   == Trim(cs)
        signed == Len(body) >= 1 /\ body[1] \in {43, 45}
        first  == IF signed THEN 2 ELSE 1
        k      == DigitRun(body, first)
    IN  IF body = <<>> THEN Num(0)
        ELSE IF k = 0 \/ first + k - 1 # Len(body) THEN NaN
        ELSE IF signed /\ body[1] = 45 THEN Num(0 - DigitsValue(body, first, k))
        ELSE Num(DigitsValue(body, first, k))

\* parseFloat(v): v is converted to a string first
ParseFloat(v) == ParseFloatStr(ToStr(v))

\* a < b and a > b on numbers, false when either side is NaN
NumLess(a, b)    == a.t = "number" /\ b.t = "number" /\ a.n < b.n
NumGreater(a, b) == a.t = "number" /\ b.t = "number" /\ a.n > b.n
NumGeq(a, b)     == a.t = "number" /\ b.t = "number" /\ a.n >= b.n

-----------------------------------------------------------------------------
(* The engine takes part in what a date string means and in how an array
   is sorted. *)

VARIABLE
    engine            \* the JavaScript engine of the browser the table runs in

-----------------------------------------------------------------------------
(* Dates.  A time value is <<days since 1970-01-01, ms of the day>>; <<>> is
   the time value of an Invalid Date (NaN). *)

IsLeap(y) == (y % 4 = 0 /\ y % 100 # 0) \/ y % 400 = 0

DaysInMonth(y, m) ==
    IF m = 2 THEN (IF IsLeap(y) THEN 29 ELSE 28)
    ELSE IF m \in {4, 6, 9, 11} THEN 30 ELSE 31

\* days from 1970-01-01 to the civil date y-m-d
DaysFromCivil(y, m, d) ==
    LET yy  == IF m <= 2 THEN y - 1 ELSE y
        era == yy \div 400
        yoe == yy - era * 400
        mp  == IF m > 2 THEN m - 3 ELSE m + 9
        doy == (153 * mp + 2) \div 5 + d - 1
        doe == yoe * 365 + yoe \div 4 - yoe \div 100 + doy
    IN  era * 146097 + doe - 719468

\* the time value of midnight of a day, NaN out of the range of time values
DaysTime(days) == IF days >= -100000000 /\ days <= 100000000 THEN <<days, 0>> ELSE <<>>

\* the time value of day d of month m of year y, days past the end of the
\* month running into the next one; NaN when the year is not within a
\* million years of year 0
MakeDate(y, m, d) ==
    IF y < -1000000 \/ y > 1000000 THEN <<>>
    ELSE DaysTime(DaysFromCivil(y, m, 1) + d - 1)

IsMonth(n) == n >= 1 /\ n <= 12
IsDay(n)   == n >= 1 /\ n <= 31

\* a character of a word of the date string: any code unit from 'A' up
\* that is not white space
IsWordChar(c) == c >= 65 /\ ~IsWhiteSpace(c)

RECURSIVE WordRun(_, _)
\* the length of the word of cs that starts at index i
WordRun(cs, i) == IF i <= Len(cs) /\ IsWordChar(cs[i]) THEN 1 + WordRun(cs, i + 1) ELSE 0

\* the first three characters of the word cs[i..i+w-1] as the keyword table
\* is searched with them: bit 0x20 set, padded with 0
WordPrefix(cs, i, w) ==
    [k \in 1..3 |-> IF k > w THEN 0
                    ELSE IF (cs[i + k - 1] \div 32) % 2 = 1 THEN cs[i + k - 1]
                    ELSE cs[i + k - 1] + 32]

\* jan feb mar apr may jun jul aug sep oct nov dec
MonthNames ==
    << <<106, 97, 110>>, <<102, 101, 98>>, <<109, 97, 114>>, <<97, 112, 114>>,
       <<109, 97, 121>>, <<106, 117, 110>>, <<106, 117, 108>>, <<97, 117, 103>>,
       <<115, 101, 112>>, <<111, 99, 116>>, <<110, 111, 118>>, <<100, 101, 99>> >>

\* the month a word names by its first three letters, 0 when none
NamedMonth(cs, i, w) ==
    IF w >= 3 /\ \E m \in 1..12 : MonthNames[m] = WordPrefix(cs, i, w)
    THEN CHOOSE m \in 1..12 : MonthNames[m] = WordPrefix(cs, i, w)
    ELSE 0

\* ut utc z gmt cdt cst edt est mdt mst pdt pst
ZoneNames ==
    { <<117, 116, 0>>, <<117, 116, 99>>, <<122, 0, 0>>, <<103, 109, 116>>,
      <<99, 100, 116>>, <<99, 115, 116>>, <<101, 100, 116>>, <<101, 115, 116>>,
      <<109, 100, 116>>, <<109, 115, 116>>, <<112, 100, 116>>, <<112, 115, 116>> }

\* the word cs[i..i+w-1] names a time zone
IsZoneName(cs, i, w) == w <= 3 /\ WordPrefix(cs, i, w) \in ZoneNames

\* the strings Date.parse is modelled for: no time of day, no time zone and
\* no parenthesis in them (no ':', '.', '(' and no time zone word), and no
\* number of more than nine digits.  The host's time zone is UTC.
InDateDomain(cs) ==
    /\ \A i \in 1..Len(cs) : cs[i] \notin {58, 46, 40}
    /\ \A i \in 1..Len(cs) :
          (IsWordChar(cs[i]) /\ (i = 1 \/ ~IsWordChar(cs[i - 1])))
              => ~IsZoneName(cs, i, WordRun(cs, i))
    /\ \A i \in 1..Len(cs) : DigitRun(cs, i) <= 9

\* the year of a date string that is not in the standard format
\* throughout: 0 .. 49 is 2000 .. 2049 and 50 .. 99 is 1950 .. 1999
LegacyYear(y) ==
    IF y >= 0 /\ y <= 49 THEN y + 2000
    ELSE IF y >= 50 /\ y <= 99 THEN y + 1900
    ELSE y

\* the date <<year, month, day>> as a time value, NaN when the month or the
\* day is none
DateOf(ymd, iso) ==
    IF ~IsMonth(ymd[2]) \/ ~IsDay(ymd[3]) THEN <<>>
    ELSE MakeDate(IF iso THEN ymd[1] ELSE LegacyYear(ymd[1]), ymd[2], ymd[3])

\* <<year, month, day>> of the three numbers c, of which the ones not read
\* are 1, and of the month named (0 when none)
YearMonthDay(c, month, iso) ==
    IF month = 0
    THEN (IF iso \/ ~IsDay(c[1]) THEN c ELSE <<c[3], c[1], c[2]>>)
    ELSE IF ~IsDay(c[1]) THEN <<c[1], month, c[2]>>
    ELSE <<c[2], month, c[1]>>

\* DayComposer::Write of the V8 date parser: the date of the numbers read,
\* comp, and of the month named; iso tells that the string was in the
\* standard format throughout
DayWrite(comp, month, iso) ==
    IF comp = <<>> THEN <<>>
    ELSE DateOf(YearMonthDay([k \in 1..3 |-> IF k <= Len(comp) THEN comp[k] ELSE 1],
                             month, iso), iso)

\* the index after the token that ends before index j, a '-' that follows
\* it being skipped
SkipDash(cs, j) == IF j <= Len(cs) /\ cs[j] = 45 THEN j + 1 ELSE j

\* the loop of the date parser stops: the string is no date
NoDate == [next |-> 0, comp |-> <<>>, month |-> 0, hasRead |-> FALSE, iso |-> FALSE]

\* the state of the loop after a word of w characters at index i, named the
\* month that the word names (0 when none): a month name is taken with a
\* '-' that follows it; any other word is skipped before the first number,
\* unless a digit follows it at once, and is no date after one
WordToken(cs, i, w, named, comp, month, hasRead) ==
    IF named # 0
    THEN [next |-> SkipDash(cs, i + w), comp |-> comp, month |-> named,
          hasRead |-> hasRead, iso |-> FALSE]
    ELSE IF hasRead \/ (i + w <= Len(cs) /\ IsDigit(cs[i + w])) THEN NoDate
    ELSE [next |-> i + w, comp |-> comp, month |-> month, hasRead |-> hasRead, iso |-> FALSE]

\* the state of the loop after the number of k digits at index i: a fourth
\* number is no date; a '-' that follows the number is skipped
NumberToken(cs, i, k, comp, month) ==
    IF Len(comp) = 3 THEN NoDate
    ELSE [next |-> SkipDash(cs, i + k), comp |-> Append(comp, DigitsValue(cs, i, k)),
          month |-> month, hasRead |-> TRUE, iso |-> FALSE]

\* the state of the loop after the token of cs at index i: a number, a sign
\* or ')', which is no date after a number, a word, or any other character,
\* which is skipped
LegacyToken(cs, i, comp, month, hasRead) ==
    IF IsDigit(cs[i]) THEN NumberToken(cs, i, DigitRun(cs, i), comp, month)
    ELSE IF cs[i] \in {43, 45, 41} /\ hasRead THEN NoDate
    ELSE IF cs[i] \notin {43, 45, 41} /\ IsWordChar(cs[i])
    THEN WordToken(cs, i, WordRun(cs, i), NamedMonth(cs, i, WordRun(cs, i)),
                   comp, month, hasRead)
    ELSE [next |-> i + 1, comp |-> comp, month |-> month, hasRead |-> hasRead, iso |-> FALSE]

RECURSIVE LegacyParse(_, _)
\* the loop of the V8 date parser over the tokens of cs, from the given
\* state on: next the index of the token, comp the numbers read so far,
\* month the month named, hasRead whether a number has been read, iso
\* whether the string was in the standard format throughout
LegacyParse(cs, state) ==
    IF state.next = 0 THEN <<>>
    ELSE IF state.next > Len(cs) THEN DayWrite(state.comp, state.month, state.iso)
    ELSE LegacyParse(cs, LegacyToken(cs, state.next, state.comp, state.month, state.hasRead))

\* cs has a run of exactly k digits at index i
FixedNumber(cs, i, k) == i <= Len(cs) /\ DigitRun(cs, i) = k

\* the number of parts of the standard format, year, -MM and -DD, that cs
\* has from index i on, the year ending before i
IsoParts(cs, i) ==
    IF ~(i <= Len(cs) /\ cs[i] = 45 /\ FixedNumber(cs, i + 1, 2)
         /\ IsMonth(DigitsValue(cs, i + 1, 2)))
    THEN 1
    ELSE IF ~(i + 3 <= Len(cs) /\ cs[i + 3] = 45 /\ FixedNumber(cs, i + 4, 2)
              /\ IsDay(DigitsValue(cs, i + 4, 2)))
    THEN 2
    ELSE 3

\* the numbers of the parts of the standard format
IsoComp(cs, i, y, parts) ==
    IF parts = 1 THEN <<y>>
    ELSE IF parts = 2 THEN <<y, DigitsValue(cs, i + 1, 2)>>
    ELSE <<y, DigitsValue(cs, i + 1, 2), DigitsValue(cs, i + 4, 2)>>

\* the state after the parts of the standard format, which end before index
\* j: at the end of the string the date is the one of the parts, read as
\* UTC; else the legacy loop takes over, past a '-' that was skipped
AfterIso(cs, j, comp) ==
    [next    |-> IF Len(comp) < 3 THEN SkipDash(cs, j) ELSE j,
     comp    |-> comp,
     month   |-> 0,
     hasRead |-> TRUE,
     iso     |-> j > Len(cs)]

\* the state after that many parts of the standard format, the year y
\* ending before index i
AfterParts(cs, i, y, parts) == AfterIso(cs, i + 3 * (parts - 1), IsoComp(cs, i, y, parts))

\* the year of a string that starts in the standard format, [+-]YYYYYY or
\* YYYY, and the index after it; next is 0 when it does not start so
IsoYear(cs) ==
    IF Len(cs) >= 1 /\ cs[1] \in {43, 45} /\ FixedNumber(cs, 2, 6)
    THEN [signed |-> TRUE, year |-> DigitsValue(cs, 2, 6) * (IF cs[1] = 45 THEN -1 ELSE 1),
          next |-> 8]
    ELSE IF FixedNumber(cs, 1, 4)
    THEN [signed |-> FALSE, year |-> DigitsValue(cs, 1, 4), next |-> 5]
    ELSE [signed |-> FALSE, year |-> 0, next |-> 0]

\* the string starts with -000000, which is no year of the standard format
IsMinusZero(cs, start) == start.signed /\ cs[1] = 45 /\ start.year = 0

\* the state the loop starts from: the first token when the string does not
\* start in the standard format, else the state after the parts of the
\* standard format; -000000 is no year: the six digits are dropped and the
\* loop goes on after them with no number read
StartState(cs, start) ==
    IF start.next = 0
    THEN [next |-> 1, comp |-> <<>>, month |-> 0, hasRead |-> FALSE, iso |-> FALSE]
    ELSE IF IsMinusZero(cs, start)
    THEN [next |-> start.next, comp |-> <<>>, month |-> 0, hasRead |-> FALSE, iso |-> FALSE]
    ELSE AfterParts(cs, start.next, start.year, IsoParts(cs, start.next))

\* Date.parse(cs) in V8: the standard format first, the legacy loop for what
\* is left
DateParseV8(cs) == LegacyParse(cs, StartState(cs, IsoYear(cs)))

\* the date <<year, month, day>> of the standard format as a time value,
\* NaN when the month has no such day
StrictDay(ymd) ==
    IF ymd[3] > DaysInMonth(ymd[1], ymd[2]) THEN <<>>
    ELSE MakeDate(ymd[1], ymd[2], ymd[3])

\* the date of a string whose year, of the standard format, ends before
\* index i and which has that many parts: NaN unless the parts are the
\* whole string; the parts not given are 1
StrictParts(cs, i, comp) ==
    IF i + 3 * (Len(comp) - 1) <= Len(cs) THEN <<>>
    ELSE StrictDay([k \in 1..3 |-> IF k <= Len(comp) THEN comp[k] ELSE 1])

\* the date of a string of the date-only forms of the standard format,
\* YYYY, YYYY-MM and YYYY-MM-DD, the year also as +YYYYYY or -YYYYYY
StrictDate(cs, start) ==
    IF start.next = 0 \/ IsMinusZero(cs, start) THEN <<>>
    ELSE StrictParts(cs, start.next,
                     IsoComp(cs, start.next, start.year, IsoParts(cs, start.next)))

\* Date.parse(cs) in an engine that takes the standard format only
DateParseStrict(cs) == StrictDate(cs, IsoYear(cs))

\* Date.parse(cs): what a string off the standard format gives is the
\* engine's choice
DateParse(cs) == IF engine = "v8" THEN DateParseV8(cs) ELSE DateParseStrict(cs)

\* the time value of a number of milliseconds
MsToTime(k) == <<k \div 86400000, k % 86400000>>

\* new Date(v).getTime(): a Date is copied, a string is parsed, anything
\* else is converted to a number of milliseconds (null is 0, undefined NaN)
DateTime(v) ==
    CASE v.t = "date"    -> v.s
      [] v.t = "string"  -> DateParse(v.s)
      [] v.t = "number"  -> MsToTime(v.n)
      [] v.t = "boolean" -> MsToTime(v.n)
      [] v.t = "null"    -> MsToTime(0)
      [] OTHER -> <<>>

IsNaNTime(ts) == ts = <<>>

\* a < b on time values, false when either is NaN
TimeLess(a, b) ==
    /\ ~IsNaNTime(a) /\ ~IsNaNTime(b)
    /\ (a[1] < b[1] \/ (a[1] = b[1] /\ a[2] < b[2]))

-----------------------------------------------------------------------------
(* Records and the search predicate *)

\* row[key]: undefined when the record has no such field
Get(row, key) == IF key \in DOMAIN row THEN row[key] ELSE Undefined

\* a mutant of StrOrEmpty: String(v)
StrNoDefault(v) == ToStr(v)

\* String(v ?? '')
StrOrEmpty(v) == IF IsNullish(v) THEN <<>> ELSE ToStr(v)

\* the callback of the search filter: with scope 'all' some column's value
\* contains the lower-cased term, otherwise the value of the scope column does
SearchMatch(row, term, scope, cols) ==
    LET lowercasedTerm == ToLowerCase(term)
    IN  IF scope = "all"
        THEN \E i \in 1..Len(cols) :
                Includes(ToLowerCase(StrOrEmpty(Get(row, cols[i].key))), lowercasedTerm)
        ELSE Includes(ToLowerCase(StrOrEmpty(Get(row, scope))), lowercasedTerm)

\* step 1 of filteredData: the rows are searched only when the term is non-empty
SearchStep(rows, term, scope, cols) ==
    IF term # <<>>
    THEN SelectSeq(rows, LAMBDA row : SearchMatch(row, term, scope, cols))
    ELSE rows

-----------------------------------------------------------------------------
(* Advanced filters *)

\* a === b on scalars (objects are equal by identity, never by content)
StrictEq(a, b) ==
    /\ a.t = b.t
    /\ a.t \in {"undefined", "null", "number", "string", "boolean"}
    /\ a = b

\* SameValueZero, the comparison of Array.prototype.includes: as ===, but
\* NaN is the same as NaN
SameValueZero(a, b) == StrictEq(a, b) \/ (a.t = "nan" /\ b.t = "nan")

\* value.min / value.from and value.max / value.to: undefined unless the
\* value is an object that has the property
RangeLo(value) == IF value.t = "range" THEN value.lo ELSE Undefined
RangeHi(value) == IF value.t = "range" THEN value.hi ELSE Undefined

\* the two tests of case 'dateRange' on rowDate, the time value of
\* new Date(rowValue): each bound is tested when it is set
WithinDates(rowDate, value) ==
    IF Truthy(RangeLo(value)) /\ TimeLess(rowDate, DateTime(RangeLo(value)))
    THEN FALSE
    ELSE IF Truthy(RangeHi(value)) /\ TimeLess(DateTime(RangeHi(value)), rowDate)
    THEN FALSE
    ELSE TRUE

\* case 'dateRange'
DateRangePass(rowValue, value) ==
    IF ~Truthy(RangeLo(value)) /\ ~Truthy(RangeHi(value)) THEN TRUE
    ELSE WithinDates(DateTime(rowValue), value)

\* case 'numberRange'
NumberRangePass(rowValue, value) ==
    LET numValue == ParseFloat(rowValue)
    IN  IF Truthy(RangeLo(value)) /\ NumLess(numValue, ParseFloat(RangeLo(value)))
        THEN FALSE
        ELSE IF Truthy(RangeHi(value)) /\ NumGreater(numValue, ParseFloat(RangeHi(value)))
        THEN FALSE
        ELSE TRUE

\* the number a relational operator sees for a scalar operand (ToNumber)
ToNumber(v) ==
    CASE v.t = "number"  -> v
      [] v.t = "boolean" -> Num(v.n)
      [] v.t = "null"    -> Num(0)
      [] v.t = "string"  -> StringToNumber(v.s)
      [] OTHER -> NaN

\* the callback of one advanced filter: the switch on field.type
FilterPass(type, rowValue, value) ==
    CASE type = "text" ->
            Includes(ToLowerCase(ToStr(rowValue)), ToLowerCase(ToStr(value)))
      [] type = "select" -> StrictEq(rowValue, value)
      [] type = "multiSelect" ->
            value.t = "array" /\ \E i \in 1..Len(value.items) : SameValueZero(value.items[i], rowValue)
      [] type = "dateRange" -> DateRangePass(rowValue, value)
      [] type = "numberRange" -> NumberRangePass(rowValue, value)
      [] type = "slider" -> NumGeq(ParseFloat(rowValue), ToNumber(value))
      [] type = "checkbox" -> IF Truthy(value) THEN Truthy(rowValue) ELSE TRUE
      [] OTHER -> TRUE

\* filterFields.find(f => f.key === key): the index of the first field with
\* that key, 0 when there is none
FindField(fields, key) ==
    IF \E i \in 1..Len(fields) : fields[i].key = key
    THEN CHOOSE i \in 1..Len(fields) :
            fields[i].key = key /\ \A j \in 1..(i - 1) : fields[j].key # key
    ELSE 0

\* a mutant of EntryApplies: the value of the entry is not looked at
EntryAppliesAnyValue(fields, key, value) == FindField(fields, key) # 0

\* the guard of the forEach callback: an entry is skipped when its value is
\* falsy or an empty array, or when no filter field has its key
EntryApplies(fields, key, value) ==
    /\ Truthy(value)
    /\ ~(value.t = "array" /\ Len(value.items) = 0)
    /\ FindField(fields, key) # 0

\* one turn of the forEach over Object.entries(advancedFilters)
FilterStep(rows, fields, key, value) ==
    IF EntryApplies(fields, key, value)
    THEN LET type == fields[FindField(fields, key)].type
         IN  SelectSeq(rows, LAMBDA row : FilterPass(type, Get(row, key), value))
    ELSE rows

\* a mutant of ApplyFilters: the loop stops after its first entry
ApplyFiltersFirstOnly(rows, fields, filterMap, keys) ==
    IF keys = {} THEN rows
    ELSE LET key == CHOOSE k \in keys : TRUE
         IN  FilterStep(rows, fields, key, filterMap[key])

RECURSIVE ApplyFilters(_, _, _, _)
\* step 2 of filteredData: the entries of the filter map are applied one
\* after the other, each to what the previous ones kept
ApplyFilters(rows, fields, filterMap, keys) ==
    IF keys = {} THEN rows
    ELSE LET key == CHOOSE k \in keys : TRUE
         IN  ApplyFilters(FilterStep(rows, fields, key, filterMap[key]),
                          fields, filterMap, keys \ {key})

-----------------------------------------------------------------------------
(* Sorting *)

\* the end of the sort callback, for two values that are not both numbers:
\* by the time values dateA and dateB of new Date(...).getTime() when
\* neither is NaN, else by the strings
ByTimeOrString(dateA, dateB, stringA, stringB, asc) ==
    IF ~IsNaNTime(dateA) /\ ~IsNaNTime(dateB)
    THEN (IF dateA = dateB THEN 0
          ELSE IF TimeLess(dateA, dateB) = asc THEN -1 ELSE 1)
    ELSE IF StrLess(stringA, stringB) THEN (IF asc THEN -1 ELSE 1)
    ELSE IF StrLess(stringB, stringA) THEN (IF asc THEN 1 ELSE -1)
    ELSE 0

\* a mutant of Comparator: the strings are compared as they are, upper case
\* before lower case
ComparatorCaseSensitive(a, b, cfg) ==
    LET aValue == Get(a, cfg.key)
        bValue == Get(b, cfg.key)
        asc    == cfg.direction = "asc"
    IN  IF IsNullish(aValue) THEN 1
        ELSE IF IsNullish(bValue) THEN -1
        ELSE IF IsNumeric(aValue) /\ IsNumeric(bValue)
        THEN (IF aValue.t = "nan" \/ bValue.t = "nan" \/ aValue.n = bValue.n THEN 0
              ELSE IF (aValue.n < bValue.n) = asc THEN -1 ELSE 1)
        ELSE ByTimeOrString(DateTime(aValue), DateTime(bValue),
                            ToStr(aValue), ToStr(bValue), asc)

\* a mutant of Comparator: descending, a null or undefined value goes first
ComparatorNullsByDirection(a, b, cfg) ==
    LET aValue == Get(a, cfg.key)
        bValue == Get(b, cfg.key)
        asc    == cfg.direction = "asc"
    IN  IF IsNullish(aValue) THEN (IF asc THEN 1 ELSE -1)
        ELSE IF IsNullish(bValue) THEN (IF asc THEN -1 ELSE 1)
        ELSE IF IsNumeric(aValue) /\ IsNumeric(bValue)
        THEN (IF aValue.t = "nan" \/ bValue.t = "nan" \/ aValue.n = bValue.n THEN 0
              ELSE IF (aValue.n < bValue.n) = asc THEN -1 ELSE 1)
        ELSE ByTimeOrString(DateTime(aValue), DateTime(bValue),
                            ToLowerCase(ToStr(aValue)), ToLowerCase(ToStr(bValue)), asc)

\* the sort callback: the sign of the number it returns for rows a and b
Comparator(a, b, cfg) ==
    LET aValue == Get(a, cfg.key)
        bValue == Get(b, cfg.key)
        asc    == cfg.direction = "asc"
    IN  IF IsNullish(aValue) THEN 1
        ELSE IF IsNullish(bValue) THEN -1
        ELSE IF IsNumeric(aValue) /\ IsNumeric(bValue)
        THEN (IF aValue.t = "nan" \/ bValue.t = "nan" \/ aValue.n = bValue.n THEN 0
              ELSE IF (aValue.n < bValue.n) = asc THEN -1 ELSE 1)
        ELSE ByTimeOrString(DateTime(aValue), DateTime(bValue),
                            ToLowerCase(ToStr(aValue)), ToLowerCase(ToStr(bValue)), asc)

\* Array.prototype.sort as the JavaScript engine runs it on an array shorter
\* than 64 elements: one ascending or strictly descending run is taken from
\* the front (and reversed when descending), and every element after it is
\* put in place by binary insertion.  Sequences are 1-based here; w is the
\* work array.

RECURSIVE RunEnd(_, _, _, _)
\* CountAndMakeRun's loop: the last index of the run that starts at 1,
\* i being the next index to look at
RunEnd(w, cfg, descending, i) ==
    IF i > Len(w) THEN Len(w)
    ELSE LET order == Comparator(w[i], w[i - 1], cfg)
         IN  IF (descending /\ order >= 0) \/ (~descending /\ order < 0)
             THEN i - 1
             ELSE RunEnd(w, cfg, descending, i + 1)

Reverse(w) == [i \in 1..Len(w) |-> w[Len(w) + 1 - i]]

RECURSIVE InsertionPoint(_, _, _, _, _)
\* the binary search of BinaryInsertionSort: where pivot goes in w[1..], with
\* left and right 0-based and right exclusive
InsertionPoint(w, cfg, pivot, left, right) ==
    IF left >= right THEN left
    ELSE LET mid == left + ((right - left) \div 2)
         IN  IF Comparator(pivot, w[mid + 1], cfg) < 0
             THEN InsertionPoint(w, cfg, pivot, left, mid)
             ELSE InsertionPoint(w, cfg, pivot, mid + 1, right)

RECURSIVE BinaryInsertionSort(_, _, _)
\* w[1..start] is sorted; the elements after it are inserted one by one
BinaryInsertionSort(w, cfg, start) ==
    IF start >= Len(w) THEN w
    ELSE LET pivot == w[start + 1]
             left  == InsertionPoint(w, cfg, pivot, 0, start)
             moved == [i \in 1..Len(w) |->
                          IF i <= left THEN w[i]
                          ELSE IF i = left + 1 THEN pivot
                          ELSE IF i <= start + 1 THEN w[i - 1]
                          ELSE w[i]]
         IN  BinaryInsertionSort(moved, cfg, start + 1)

\* filtered.sort(comparator)
SortRows(rows, cfg) ==
    IF Len(rows) < 2 THEN rows
    ELSE LET descending == Comparator(rows[2], rows[1], cfg) < 0
             runLength  == RunEnd(rows, cfg, descending, 3)
             made       == IF descending
                           THEN Reverse(SubSeq(rows, 1, runLength))
                                    \o SubSeq(rows, runLength + 1, Len(rows))
                           ELSE rows
         IN  BinaryInsertionSort(made, cfg, runLength)

\* The comparator returns 1 for (a, b) and for (b, a) when both values are
\* null or undefined, so it is not a consistent comparator and the order
\* Array.prototype.sort produces is left to the engine.  Next to the sort
\* above, that of V8 (Chrome, Node), the model has the sort of SpiderMonkey
\* (Firefox) for a short array: a linear insertion sort that moves an element
\* to the left past every element the comparator puts after it.

RECURSIVE ShiftPoint(_, _, _, _)
\* the inner loop of InsertionSort: the last index j <= from whose element
\* the comparator does not put after item, 0 when there is none
ShiftPoint(w, cfg, item, from) ==
    IF from < 1 THEN 0
    ELSE IF Comparator(w[from], item, cfg) <= 0 THEN from
    ELSE ShiftPoint(w, cfg, item, from - 1)

RECURSIVE InsertionSort(_, _, _)
\* w[1..i-1] is sorted; w[i] and the elements after it are inserted in turn
InsertionSort(w, cfg, i) ==
    IF i > Len(w) THEN w
    ELSE LET item  == w[i]
             j     == ShiftPoint(w, cfg, item, i - 1)
             moved == [k \in 1..Len(w) |->
                          IF k <= j THEN w[k]
                          ELSE IF k = j + 1 THEN item
                          ELSE IF k <= i THEN w[k - 1]
                          ELSE w[k]]
         IN  InsertionSort(moved, cfg, i + 1)

\* the engines the table runs in
Engines == { "v8", "spidermonkey" }

\* filtered.sort(comparator) in the given engine
SortIn(eng, rows, cfg) ==
    IF eng = "v8" THEN SortRows(rows, cfg) ELSE InsertionSort(rows, cfg, 2)

\* the sort directive: null, or {key, direction}
NoSort == [key |-> "", direction |-> "none"]

\* a mutant of SortStep: without a directive the rows are sorted by id,
\* descending
SortStepDefault(rows, cfg, eng) ==
    SortIn(eng, rows, IF cfg # NoSort THEN cfg ELSE [key |-> "id", direction |-> "desc"])

\* step 3 of filteredData
SortStep(rows, cfg, eng) == IF cfg # NoSort THEN SortIn(eng, rows, cfg) ELSE rows

\* the body of the filteredData memo
ComputeFilteredData(rows, term, scope, filterMap, fields, cols, cfg, eng) ==
    SortStep(ApplyFilters(SearchStep(rows, term, scope, cols),
                          fields, filterMap, DOMAIN filterMap), cfg, eng)

-----------------------------------------------------------------------------
(* Pagination *)

\* Math.ceil(n / size) for n >= 0 and size > 0
CeilDiv(n, size) == (n + size - 1) \div size

TotalPagesOf(rows, size) == CeilDiv(Len(rows), size)

\* Array.prototype.slice(from, to) with 0-based, non-negative bounds
Slice(rows, from, to) ==
    LET lo == IF from > Len(rows) THEN Len(rows) ELSE from
        hi == IF to > Len(rows) THEN Len(rows) ELSE to
    IN  IF lo >= hi THEN <<>> ELSE SubSeq(rows, lo + 1, hi)

\* a mutant of PaginatedDataOf: the page number is taken as 0-based
PaginatedDataFromZero(rows, page, size) ==
    LET startIndex == page * size
        endIndex   == startIndex + size
    IN  Slice(rows, startIndex, endIndex)

\* paginatedData for the page `page`
PaginatedDataOf(rows, page, size) ==
    LET startIndex == (page - 1) * size
        endIndex   == startIndex + size
    IN  Slice(rows, startIndex, endIndex)

Max(a, b) == IF a > b THEN a ELSE b
Min(a, b) == IF a < b THEN a ELSE b

Dots == Str(<<46, 46, 46>>)

RECURSIVE Unique(_)
\* Array.from(new Set(xs)): the first occurrence of every element is kept
Unique(xs) ==
    IF xs = <<>> THEN <<>>
    ELSE LET front == Unique(SubSeq(xs, 1, Len(xs) - 1))
             last  == xs[Len(xs)]
         IN  IF \E i \in 1..Len(front) : front[i] = last THEN front
             ELSE Append(front, last)

\* a mutant of GetVisiblePages: the window is one page wide on either side
GetVisiblePagesNarrow(page, total) ==
    LET first == Max(2, page - 1)
        last  == Min(total - 1, page + 1)
        range == IF first > last THEN <<>>
                 ELSE [i \in 1..(last - first + 1) |-> Num(first + i - 1)]
        p1 == IF total > 1 THEN <<Num(1)>> ELSE <<>>
        p2 == IF page - 2 > 2 THEN <<Dots>> ELSE <<>>
        p3 == IF page + 2 < total - 1 /\ total > 1 THEN <<Dots>> ELSE <<>>
        p4 == IF total > 1 THEN <<Num(total)>> ELSE <<>>
    IN  Unique(p1 \o p2 \o range \o p3 \o p4)

\* getVisiblePages for the given currentPage and totalPages
GetVisiblePages(page, total) ==
    LET delta == 2
        first == Max(2, page - delta)
        last  == Min(total - 1, page + delta)
        range == IF first > last THEN <<>>
                 ELSE [i \in 1..(last - first + 1) |-> Num(first + i - 1)]
        p1 == IF total > 1 THEN <<Num(1)>> ELSE <<>>
        p2 == IF page - delta > 2 THEN <<Dots>> ELSE <<>>
        p3 == IF page + delta < total - 1 /\ total > 1 THEN <<Dots>> ELSE <<>>
        p4 == IF (\A i \in 1..Len(range) : range[i] # Num(total)) /\ total > 1
              THEN <<Num(total)>> ELSE <<>>
        rangeWithDots == p1 \o p2 \o range \o p3 \o p4
        uniquePages == Unique(rangeWithDots)
    IN  IF Len(uniquePages) = 2 /\ uniquePages[2] = Dots THEN <<Num(1)>>
        ELSE uniquePages

-----------------------------------------------------------------------------
(* Export *)

RECURSIVE Join(_, _)
\* Array.prototype.join: the strings of parts with sep between them
Join(parts, sep) ==
    IF parts = <<>> THEN <<>>
    ELSE IF Len(parts) = 1 THEN parts[1]
    ELSE parts[1] \o sep \o Join(Tail(parts), sep)

RECURSIVE DoubleQuotes(_)
\* replace(/"/g, '""')
DoubleQuotes(cs) ==
    IF cs = <<>> THEN <<>>
    ELSE (IF cs[1] = 34 THEN <<34, 34>> ELSE <<cs[1]>>) \o DoubleQuotes(Tail(cs))

\* a cell of a data row: `"${String(value || '').replace(/"/g, '""')}"`
CsvCell(value) ==
    <<34>> \o DoubleQuotes(IF Truthy(value) THEN ToStr(value) ELSE <<>>) \o <<34>>

\* a data row: the cells of the columns, joined by commas
CsvRow(row, cols) ==
    Join([c \in 1..Len(cols) |-> CsvCell(Get(row, cols[c].key))], <<44>>)

\* headers.join(',')
CsvHeader(cols) == Join([c \in 1..Len(cols) |-> cols[c].label], <<44>>)

\* a mutant of CsvContent: the first record only is exported
CsvContentFirstRow(cols, rows) ==
    Join(<<CsvHeader(cols)>> \o [r \in 1..Min(1, Len(rows)) |-> CsvRow(rows[r], cols)], <<10>>)

\* csvContent: the header row and the data rows, joined by newlines
CsvContent(cols, rows) ==
    Join(<<CsvHeader(cols)>> \o [r \in 1..Len(rows) |-> CsvRow(rows[r], cols)], <<10>>)

\* the property names of a record and their code units.  A record of the
\* model stands for an object whose properties were set in this order, the
\* order in which Object.keys and JSON.stringify go through them
FieldOrder == <<"id", "name", "grade", "region", "date", "amount", "score", "active">>

FieldChars ==
    [ id     |-> <<105, 100>>,
      name   |-> <<110, 97, 109, 101>>,
      grade  |-> <<103, 114, 97, 100, 101>>,
      region |-> <<114, 101, 103, 105, 111, 110>>,
      date   |-> <<100, 97, 116, 101>>,
      amount |-> <<97, 109, 111, 117, 110, 116>>,
      score  |-> <<115, 99, 111, 114, 101>>,
      active |-> <<97, 99, 116, 105, 118, 101>> ]

\* the lower-case hexadecimal digit of n
HexDigit(n) == IF n < 10 THEN 48 + n ELSE 87 + n

\* \uXXXX, the escape of the code unit c
UnicodeEscape(c) ==
    <<92, 117, HexDigit(c \div 4096), HexDigit((c \div 256) % 16),
      HexDigit((c \div 16) % 16), HexDigit(c % 16)>>

IsLeadSurrogate(c)  == c >= 55296 /\ c <= 56319
IsTrailSurrogate(c) == c >= 56320 /\ c <= 57343

\* the characters of a JSON string for one code unit of cs: a double quote
\* and a backslash get a backslash before them, backspace, tab, line feed,
\* form feed and carriage return their letter, any other code unit below
\* U+0020 and a surrogate without its partner the escape \uXXXX
JsonChar(cs, i) ==
    LET c == cs[i]
    IN  CASE c \in {34, 92} -> <<92, c>>
          [] c = 8  -> <<92, 98>>
          [] c = 9  -> <<92, 116>>
          [] c = 10 -> <<92, 110>>
          [] c = 12 -> <<92, 102>>
          [] c = 13 -> <<92, 114>>
          [] c < 32 /\ c \notin {8, 9, 10, 12, 13} -> UnicodeEscape(c)
          [] IsLeadSurrogate(c) /\ ~(i < Len(cs) /\ IsTrailSurrogate(cs[i + 1])) -> UnicodeEscape(c)
          [] IsTrailSurrogate(c) /\ ~(i > 1 /\ IsLeadSurrogate(cs[i - 1])) -> UnicodeEscape(c)
          [] OTHER -> <<c>>

\* the characters of a JSON string
JsonEscape(cs) == Join([i \in 1..Len(cs) |-> JsonChar(cs, i)], <<>>)

\* JSON.stringify of a scalar: a string is quoted, NaN is null, the others
\* are their own text
JsonValue(v) ==
    CASE v.t = "string" -> <<34>> \o JsonEscape(v.s) \o <<34>>
      [] v.t = "nan"    -> ToStr(Null)
      [] OTHER          -> ToStr(v)

\* JSON.stringify of a record as an element of the array, indented by 2: a
\* property whose value is undefined is left out
JsonObject(row) ==
    LET keys  == SelectSeq(FieldOrder, LAMBDA k : Get(row, k) # Undefined)
        props == [i \in 1..Len(keys) |->
                    <<32, 32, 32, 32, 34>> \o FieldChars[keys[i]] \o <<34, 58, 32>>
                        \o JsonValue(row[keys[i]])]
    IN  IF keys = <<>> THEN <<123, 125>>
        ELSE <<123, 10>> \o Join(props, <<44, 10>>) \o <<10, 32, 32, 125>>

\* JSON.stringify(rows, null, 2)
JsonContent(rows) ==
    IF rows = <<>> THEN <<91, 93>>
    ELSE <<91, 10>>
           \o Join([r \in 1..Len(rows) |-> <<32, 32>> \o JsonObject(rows[r])], <<44, 10>>)
           \o <<10, 93>>

-----------------------------------------------------------------------------
(* The props of the DataTable instance that is modelled *)

\* tableName: "data", its default
tableName == <<100, 97, 116, 97>>

\* the strings of the model, as code units
sAcme  == <<65, 99, 109, 101>>                          \* "Acme"
sBeta  == <<66, 101, 116, 97>>                          \* "Beta"
sBe    == <<98, 101>>                                   \* "be"
sGold  == <<103, 111, 108, 100>>                        \* "gold"
sKR    == <<75, 82>>                                    \* "KR"
sUS    == <<85, 83>>                                    \* "US"
sDay10 == <<50, 48, 50, 52, 45, 48, 49, 45, 49, 48>>    \* "2024-01-10"
sDay20 == <<50, 48, 50, 52, 45, 48, 49, 45, 50, 48>>    \* "2024-01-20"
s60    == <<54, 48>>                                    \* "60"
s100   == <<49, 48, 48>>                                \* "100"
s0     == <<48>>                                        \* "0"
sNu    == <<110, 117>>                                  \* "nu"
sBE    == <<66, 69>>                                    \* "BE"

\* columns: one column per field of a record
columns ==
    << [key |-> "id",     label |-> <<73, 68>>],
       [key |-> "name",   label |-> <<78, 97, 109, 101>>],
       [key |-> "amount", label |-> <<65, 109, 111, 117, 110, 116>>],
       [key |-> "date",   label |-> <<68, 97, 116, 101>>] >>

\* filterFields: one field of every filter type
filterFields ==
    << [key |-> "name",   type |-> "text"],
       [key |-> "grade",  type |-> "select"],
       [key |-> "region", type |-> "multiSelect"],
       [key |-> "date",   type |-> "dateRange"],
       [key |-> "amount", type |-> "numberRange"],
       [key |-> "score",  type |-> "slider", min |-> -40, max |-> 80, step |-> 40],
       [key |-> "active", type |-> "checkbox"] >>

\* the values the slider of a field delivers: min, min + step, ... up to max
SliderValues(field) ==
    { Num(field.min + k * field.step) : k \in 0..((field.max - field.min) \div field.step) }

\* a record of the collection
Rec(id, name, grade, region, date, amount, score, active) ==
    [id |-> id, name |-> name, grade |-> grade, region |-> region, date |-> date,
     amount |-> amount, score |-> score, active |-> active]


\* the records of the interactive model
row1 == Rec(Num(1), Str(sAcme), Str(sGold), Str(sKR), Str(sDay10), Num(100), Num(80), Bool(TRUE))
row2 == Rec(Num(2), Str(sBeta), Null, Str(sUS), Str(sDay20), Num(50), Num(40), Bool(FALSE))
row3 == Rec(Num(3), Str(sBeta), Str(sGold), Str(sKR), Null, Null, Num(0), Bool(TRUE))
row4 == Rec(Num(4), Null, Str(sGold), Null, Str(sDay10), Num(0), Null, Null)
row5 == Rec(Num(5), Str(sAcme), Null, Str(sUS), Str(sDay20), Num(-5), Num(80), Bool(FALSE))

-----------------------------------------------------------------------------
(* State *)

VARIABLES
    filterFieldsProp, \* prop filterFields: the fields the page passes in
    download,         \* the file the last export handed to the browser
    data,             \* prop data: the collection the page passes in
    pageSize,         \* prop pageSize, fixed for the life of the instance
    searchTerm,       \* useState('')
    searchColumn,     \* useState('all')
    filters,          \* AdvancedFilter's own useState({})
    advancedFilters,  \* DataTable's useState({})
    sortConfig,       \* useState(null)
    currentPage,      \* useState(1)
    filteredData,     \* the useMemo value
    lastOp,           \* history: the operation that led to this state
    count,            \* use-toast: the counter of genId
    toasts,           \* use-toast: memoryState.toasts
    toastTimeouts,    \* use-toast: the keys of the map toastTimeouts
    pending,          \* use-toast: the setTimeout callbacks not yet run, by toast id
    applied           \* one turn of the filter loop run on its own: inputs and result

toastVars == <<count, toasts, toastTimeouts, pending>>

tableVars == <<engine, filterFieldsProp, download, data, pageSize, searchTerm, searchColumn, filters,
               advancedFilters, sortConfig, currentPage, filteredData>>

vars == <<engine, filterFieldsProp, download, data, pageSize, searchTerm, searchColumn, filters, advancedFilters,
          sortConfig, currentPage, filteredData, lastOp, toastVars, applied>>

\* no export has been made
NoDownload == [name |-> <<>>, type |-> "", content |-> <<>>]

\* {}: the object without properties
EmptyMap == [k \in {} |-> Undefined]

\* {...m, [key]: value}
WithEntry(m, key, value) ==
    [k \in (DOMAIN m) \cup {key} |-> IF k = key THEN value ELSE m[k]]

\* the memo, recomputed from the given inputs
Memo(rows, term, scope, filterMap, cfg) ==
    ComputeFilteredData(rows, term, scope, filterMap, filterFieldsProp, columns, cfg, engine)

\* a mutant of MemoDeps: sortConfig is missing from the list
MemoDepsNoSort ==
    { "data", "searchTerm", "searchColumn", "advancedFilters", "filterFields", "columns" }

\* the dependency list of the memo
MemoDeps ==
    { "data", "searchTerm", "searchColumn", "advancedFilters", "filterFields", "columns",
      "sortConfig" }

\* useMemo: the value is computed anew when one of the dependencies is
\* another value (for arrays and objects: another object) than at the
\* previous render, else the previous value is kept
UseMemo(changed, previous, fresh) ==
    IF changed \cap MemoDeps # {} THEN fresh ELSE previous

\* a mutant of SpreadCopy: no copy is made, the memo works on the array data
SpreadShared(rows) == [array |-> "data", items |-> rows]

\* [...data]: a new array, filtered, that holds the elements of data
SpreadCopy(rows) == [array |-> "filtered", items |-> rows]

\* the elements of the array data after the memo ran: the search and every
\* filter entry that applies assign a new array to filtered, and the sort
\* orders the array that filtered is then, in place
DataAfterMemo(rows, term, filterMap, cfg) ==
    LET start    == SpreadCopy(rows)
        replaced == \/ term # <<>>
                    \/ \E k \in DOMAIN filterMap : EntryApplies(filterFieldsProp, k, filterMap[k])
    IN  IF start.array = "data" /\ ~replaced
        THEN SortStep(start.items, cfg, engine)
        ELSE rows

totalPages    == TotalPagesOf(filteredData, pageSize)
paginatedData == PaginatedDataOf(filteredData, currentPage, pageSize)
visiblePages  == GetVisiblePages(currentPage, totalPages)

\* the message under the table: none while the page shown has a record, else
\* "no results" when a search term or a filter entry is set, else "no data"
emptyStateMessage ==
    IF Len(paginatedData) # 0 THEN "none"
    ELSE IF searchTerm # <<>> \/ DOMAIN advancedFilters # {} THEN "noResults"
    ELSE "noData"

\* the toast module as loaded: no toast, no id given out, no timer
NoToast ==
    /\ count = 0
    /\ toasts = <<>>
    /\ toastTimeouts = {}
    /\ pending = [id \in {} |-> 0]

\* a mutant of ResetEffect: the effect is missing
ResetEffectOff(depsChanged, page) == page

\* the effect that follows a render: setCurrentPage(1) when one of
\* searchTerm, searchColumn, advancedFilters, sortConfig is not the value
\* (for objects: the object) of the previous render
ResetEffect(depsChanged, page) == IF depsChanged THEN 1 ELSE page

Op(name, arg) == [op |-> name, arg |-> arg, from |-> currentPage]

\* the filter loop has not been run on its own
NoApplication == [rows |-> <<>>, value |-> Undefined, out |-> <<>>, done |-> FALSE]

\* a table that shows the collection rows under the given search, filter
\* and sort state, on page 1
TableShown(rows, size, term, scope, filterMap, cfg) ==
    /\ NoToast
    /\ engine \in Engines
    /\ filterFieldsProp = filterFields
    /\ download = NoDownload
    /\ data = DataAfterMemo(rows, term, filterMap, cfg)
    /\ pageSize = size
    /\ searchTerm = term
    /\ searchColumn = scope
    /\ filters = filterMap
    /\ advancedFilters = filterMap
    /\ sortConfig = cfg
    /\ currentPage = 1
    /\ filteredData = Memo(rows, term, scope, filterMap, cfg)
    /\ lastOp = [op |-> "mount", arg |-> 0, from |-> 1]

\* the table shown, the filter loop not run on its own
Shown(rows, size, term, scope, filterMap, cfg) ==
    /\ applied = NoApplication
    /\ TableShown(rows, size, term, scope, filterMap, cfg)

\* the state of a freshly mounted table showing the collection rows
Mounted(rows, size) == Shown(rows, size, <<>>, "all", EmptyMap, NoSort)

-----------------------------------------------------------------------------
(* Operations *)

\* the page re-renders DataTable with another collection
SetData(rows) ==
    /\ data' = DataAfterMemo(rows, searchTerm, advancedFilters, sortConfig)
    /\ filteredData' = UseMemo({ "data" }, filteredData,
                            Memo(rows, searchTerm, searchColumn, advancedFilters, sortConfig))
    /\ currentPage' = ResetEffect(FALSE, currentPage)
    /\ lastOp' = Op("setData", 0)
    /\ UNCHANGED <<applied, toastVars, engine, filterFieldsProp, download, pageSize, searchTerm, searchColumn, filters, advancedFilters, sortConfig>>

\* the search input's onChange: setSearchTerm(term)
SetSearchTerm(term) ==
    /\ searchTerm' = term
    /\ data' = DataAfterMemo(data, term, advancedFilters, sortConfig)
    /\ filteredData' = UseMemo(IF term # searchTerm THEN { "searchTerm" } ELSE {}, filteredData,
                            Memo(data, term, searchColumn, advancedFilters, sortConfig))
    /\ currentPage' = ResetEffect(term # searchTerm, currentPage)
    /\ lastOp' = Op("setSearchTerm", 0)
    /\ UNCHANGED <<applied, toastVars, engine, filterFieldsProp, download, pageSize, searchColumn, filters, advancedFilters, sortConfig>>

\* the scope select's onValueChange: setSearchColumn(scope)
SetSearchColumn(scope) ==
    /\ searchColumn' = scope
    /\ data' = DataAfterMemo(data, searchTerm, advancedFilters, sortConfig)
    /\ filteredData' = UseMemo(IF scope # searchColumn THEN { "searchColumn" } ELSE {}, filteredData,
                            Memo(data, searchTerm, scope, advancedFilters, sortConfig))
    /\ currentPage' = ResetEffect(scope # searchColumn, currentPage)
    /\ lastOp' = Op("setSearchColumn", 0)
    /\ UNCHANGED <<applied, toastVars, engine, filterFieldsProp, download, pageSize, searchTerm, filters, advancedFilters, sortConfig>>

\* AdvancedFilter.handleFilterChange(key, value): the new map is a new
\* object, so the reset effect always runs
HandleFilterChange(key, value) ==
    LET newFilters == WithEntry(filters, key, value)
    IN  /\ Len(filterFieldsProp) > 0
        /\ filters' = newFilters
        /\ advancedFilters' = newFilters
        /\ data' = DataAfterMemo(data, searchTerm, newFilters, sortConfig)
        /\ filteredData' = UseMemo({ "advancedFilters" }, filteredData,
                                Memo(data, searchTerm, searchColumn, newFilters, sortConfig))
        /\ currentPage' = ResetEffect(TRUE, currentPage)
        /\ lastOp' = Op("handleFilterChange", 0)
        /\ UNCHANGED <<applied, toastVars, engine, filterFieldsProp, download, pageSize, searchTerm, searchColumn, sortConfig>>

\* AdvancedFilter.handleReset, behind a button that is rendered only while
\* the panel's own map has a key
HandleReset ==
    /\ Len(filterFieldsProp) > 0
    /\ DOMAIN filters # {}
    /\ filters' = EmptyMap
    /\ advancedFilters' = EmptyMap
    /\ data' = DataAfterMemo(data, searchTerm, EmptyMap, sortConfig)
    /\ filteredData' = UseMemo({ "advancedFilters" }, filteredData,
                            Memo(data, searchTerm, searchColumn, EmptyMap, sortConfig))
    /\ currentPage' = ResetEffect(TRUE, currentPage)
    /\ lastOp' = Op("handleReset", 0)
    /\ UNCHANGED <<applied, toastVars, engine, filterFieldsProp, download, pageSize, searchTerm, searchColumn, sortConfig>>

\* the page re-renders DataTable with other filter fields: the panel is
\* rendered only while there is a field, and an AdvancedFilter that is
\* mounted starts from its useState({})
SetFilterFields(newFields) ==
    /\ filterFieldsProp' = newFields
    /\ filters' = IF Len(filterFieldsProp) > 0 /\ Len(newFields) > 0 THEN filters ELSE EmptyMap
    /\ filteredData' = UseMemo({ "filterFields" }, filteredData,
                            ComputeFilteredData(data, searchTerm, searchColumn, advancedFilters,
                                                newFields, columns, sortConfig, engine))
    /\ currentPage' = ResetEffect(FALSE, currentPage)
    /\ lastOp' = Op("setFilterFields", 0)
    /\ UNCHANGED <<applied, toastVars, engine, download, data, pageSize, searchTerm, searchColumn,
                   advancedFilters, sortConfig>>

\* a mutant of NextSortConfig: an ascending directive is flipped by a click
\* on any header
NextSortConfigFlipAny(cfg, columnKey) ==
    IF cfg # NoSort /\ cfg.direction = "asc"
    THEN [key |-> columnKey, direction |-> "desc"]
    ELSE [key |-> columnKey, direction |-> "asc"]

\* the sort directive after a click on the header of columnKey
NextSortConfig(cfg, columnKey) ==
    IF cfg # NoSort /\ cfg.key = columnKey /\ cfg.direction = "asc"
    THEN [key |-> columnKey, direction |-> "desc"]
    ELSE [key |-> columnKey, direction |-> "asc"]

\* handleSort(columnKey): the directive is a new object on every click
HandleSort(columnKey) ==
    LET cfg == NextSortConfig(sortConfig, columnKey)
    IN  /\ sortConfig' = cfg
        /\ data' = DataAfterMemo(data, searchTerm, advancedFilters, cfg)
        /\ filteredData' = UseMemo({ "sortConfig" }, filteredData,
                                Memo(data, searchTerm, searchColumn, advancedFilters, cfg))
        /\ currentPage' = ResetEffect(TRUE, currentPage)
        /\ lastOp' = Op("handleSort", columnKey)
        /\ UNCHANGED <<applied, toastVars, engine, filterFieldsProp, download, pageSize, searchTerm, searchColumn, filters, advancedFilters>>

\* a mutant of PageAfterChange: the upper bound is not checked
PageAfterChangeNoUpper(page, cur, total) == IF page >= 1 THEN page ELSE cur

\* the page handlePageChange(page) leaves the table on
PageAfterChange(page, cur, total) == IF page >= 1 /\ page <= total THEN page ELSE cur

\* handlePageChange(page)
HandlePageChange(page) ==
    /\ currentPage' = PageAfterChange(page, currentPage, totalPages)
    /\ lastOp' = Op("handlePageChange", page)
    /\ UNCHANGED <<applied, toastVars, engine, filterFieldsProp, download, data, pageSize, searchTerm, searchColumn, filters, advancedFilters,
                   sortConfig, filteredData>>

\* exportToCSV, today being the day of new Date().toISOString(): the link
\* that is clicked downloads the blob under the name tableName_today.csv
ExportToCSV(today) ==
    /\ download' = [name    |-> tableName \o <<95>> \o today \o <<46, 99, 115, 118>>,
                    type    |-> "text/csv;charset=utf-8;",
                    content |-> CsvContent(columns, filteredData)]
    /\ lastOp' = Op("exportToCSV", 0)
    /\ UNCHANGED <<applied, toastVars, engine, filterFieldsProp, data, pageSize, searchTerm, searchColumn, filters,
                   advancedFilters, sortConfig, currentPage, filteredData>>

\* exportToJSON: as exportToCSV, with the JSON text and the name
\* tableName_today.json
ExportToJSON(today) ==
    /\ download' = [name    |-> tableName \o <<95>> \o today \o <<46, 106, 115, 111, 110>>,
                    type    |-> "application/json",
                    content |-> JsonContent(filteredData)]
    /\ lastOp' = Op("exportToJSON", 0)
    /\ UNCHANGED <<applied, toastVars, engine, filterFieldsProp, data, pageSize, searchTerm, searchColumn, filters,
                   advancedFilters, sortConfig, currentPage, filteredData>>

-----------------------------------------------------------------------------
(* Toasts.  Source: src/src/hooks/use-toast.ts.  A toast is a record of its
   id, its title and its open flag; memoryState.toasts is a sequence. *)

TOAST_LIMIT == 1

\* the toasts made in one run
MaxCount == 3

\* the id genId returns when the counter is c: the decimal digits of c + 1
\* (the counter stays far below Number.MAX_SAFE_INTEGER)
GenId(c) == ToStr(Num(c + 1))

\* the ids given out so far
IssuedIds == { GenId(c) : c \in 0..(count - 1) }

\* a mutant of ReduceAdd: the new toast is put behind the ones held
ReduceAddBehind(ts, toast) == SubSeq(ts \o <<toast>>, 1, Min(TOAST_LIMIT, Len(ts) + 1))

\* reducer, ADD_TOAST
ReduceAdd(ts, toast) == SubSeq(<<toast>> \o ts, 1, Min(TOAST_LIMIT, Len(ts) + 1))

\* reducer, UPDATE_TOAST with the props { title, id }
ReduceUpdate(ts, id, title) ==
    [i \in 1..Len(ts) |-> IF ts[i].id = id THEN [ts[i] EXCEPT !.title = title] ELSE ts[i]]

\* reducer, DISMISS_TOAST of one id: the state it returns
ReduceDismiss(ts, id) ==
    [i \in 1..Len(ts) |-> IF ts[i].id = id THEN [ts[i] EXCEPT !.open = FALSE] ELSE ts[i]]

\* reducer, DISMISS_TOAST without an id: the state it returns
ReduceDismissAll(ts) == [i \in 1..Len(ts) |-> [ts[i] EXCEPT !.open = FALSE]]

\* reducer, REMOVE_TOAST of one id
ReduceRemove(ts, id) == SelectSeq(ts, LAMBDA t : t.id # id)

\* the callbacks not yet run after one more setTimeout for each id of ids
WithTimers(p, ids) ==
    [id \in (DOMAIN p) \cup ids |->
        (IF id \in DOMAIN p THEN p[id] ELSE 0) + (IF id \in ids THEN 1 ELSE 0)]

\* the callbacks not yet run after the one of id ran
WithoutTimer(p, id) ==
    [k \in { d \in DOMAIN p : d # id \/ p[d] > 1 } |-> IF k = id THEN p[k] - 1 ELSE p[k]]

\* addToRemoveQueue for each id of ids: nothing for an id that is a key of
\* toastTimeouts, else a timer is set and its handle stored under the id
AddToRemoveQueue(ids) ==
    /\ pending' = WithTimers(pending, ids \ toastTimeouts)
    /\ toastTimeouts' = toastTimeouts \cup ids

\* toast({ title }): a new id, and ADD_TOAST of the open toast
Toast(title) ==
    /\ count < MaxCount
    /\ count' = count + 1
    /\ toasts' = ReduceAdd(toasts, [id |-> GenId(count), title |-> title, open |-> TRUE])
    /\ lastOp' = Op("toast", 0)
    /\ UNCHANGED <<toastTimeouts, pending, tableVars, applied>>

\* update({ title }) of the handle that toast() returned for id
UpdateToast(id, title) ==
    /\ id \in IssuedIds
    /\ toasts' = ReduceUpdate(toasts, id, title)
    /\ lastOp' = Op("update", 0)
    /\ UNCHANGED <<count, toastTimeouts, pending, tableVars, applied>>

\* dismiss() of the handle of id, onOpenChange(false) of the toast of id,
\* or dismiss(id) of useToast
Dismiss(id) ==
    /\ id \in IssuedIds
    /\ AddToRemoveQueue({ id })
    /\ toasts' = ReduceDismiss(toasts, id)
    /\ lastOp' = Op("dismiss", 0)
    /\ UNCHANGED <<count, tableVars, applied>>

\* dismiss() of useToast, without an id
DismissAll ==
    /\ AddToRemoveQueue({ toasts[i].id : i \in 1..Len(toasts) })
    /\ toasts' = ReduceDismissAll(toasts)
    /\ lastOp' = Op("dismissAll", 0)
    /\ UNCHANGED <<count, tableVars, applied>>

\* the callback of the timer set for id runs, TOAST_REMOVE_DELAY after it
\* was set: the key is deleted and REMOVE_TOAST dispatched
TimerFires(id) ==
    /\ id \in DOMAIN pending
    /\ pending' = WithoutTimer(pending, id)
    /\ toastTimeouts' = toastTimeouts \ { id }
    /\ toasts' = ReduceRemove(toasts, id)
    /\ lastOp' = Op("removeToast", 0)
    /\ UNCHANGED <<count, tableVars, applied>>

-----------------------------------------------------------------------------
(* The interactive specification: a mounted table and its user *)

\* the page size of the interactive model
SmallPageSize == 2

\* the collections the page passes in: the result of a fetch, and of the
\* fetches after records were added, changed or deleted
Collections ==
    { <<>>,
      <<row1>>,
      <<row1, row2, row3>>,
      <<row2, row1, row3, row4, row5>> }

\* what the user types into the search box, and the scopes chosen
SearchTerms  == { <<>>, sBe }
SearchScopes == { "all", "name" }

\* the (key, value) pairs the filter panel delivers
FilterInputs ==
    { <<"name", Str(sBe)>>,
      <<"name", Str(<<>>)>>,
      <<"region", List(<<Str(sKR)>>)>>,
      <<"amount", Range(Str(s60), Undefined)>>,
      <<"active", Bool(TRUE)>> }

\* the headers the user clicks
SortKeys == { "name", "amount" }

\* the pages asked of handlePageChange: 0 .. MaxPageAsked
MaxPageAsked == 4

Init == \E rows \in Collections : Mounted(rows, SmallPageSize)

Next ==
    \/ \E rows \in Collections : SetData(rows)
    \/ \E term \in SearchTerms : SetSearchTerm(term)
    \/ \E scope \in SearchScopes : SetSearchColumn(scope)
    \/ \E in \in FilterInputs : HandleFilterChange(in[1], in[2])
    \/ HandleReset
    \/ \E key \in SortKeys : HandleSort(key)
    \/ \E page \in 0..MaxPageAsked : HandlePageChange(page)

Spec == Init /\ [][Next]_vars

-----------------------------------------------------------------------------
(* The paging specification: tables of 0 .. MaxPagingRows records and page
   sizes 1 .. MaxPageSize, paged through with the previous and next buttons
   while the page replaces the collection by a shorter or longer one *)

MaxPagingRows == 25
MaxPageSize   == 15

PagingRow(i) == Rec(Num(i), Str(sAcme), Null, Null, Null, Num(i), Null, Null)

PagingRows(n) == [i \in 1..n |-> PagingRow(i)]

\* the lengths of the collections a refetch delivers
ReloadSizes == {0, 1, 3, MaxPagingRows}

InitPaging ==
    \E n \in 0..MaxPagingRows, size \in 1..MaxPageSize : Mounted(PagingRows(n), size)

\* the pagination bar is rendered while totalPages > 1; its previous button
\* is disabled on page 1 and its next button on page totalPages
ClickPrevious == totalPages > 1 /\ currentPage # 1 /\ HandlePageChange(currentPage - 1)
ClickNext     == totalPages > 1 /\ currentPage # totalPages /\ HandlePageChange(currentPage + 1)

NextPaging ==
    \/ ClickPrevious
    \/ ClickNext
    \/ \E n \in ReloadSizes : SetData(PagingRows(n))

SpecPaging == InitPaging /\ [][NextPaging]_vars

-----------------------------------------------------------------------------
(* The filter specification: the table is mounted on the collection the
   fetch delivered, and the user types into the search box and works the
   controls of the filter panel, one of every filter type *)

\* the records of scenario A, which have three fields only
acme == [id |-> Num(1), name |-> Str(sAcme), amount |-> Num(100)]
beta == [id |-> Num(2), name |-> Str(sBeta), amount |-> Num(50)]

RowPool == { acme, beta, row3, row4, row5 }

\* the longest collection of the filter specifications
MaxRows == 2

RECURSIVE SeqsUpTo(_, _)
\* the sequences over S of length at most n
SeqsUpTo(S, n) ==
    IF n = 0 THEN { <<>> }
    ELSE LET shorter == SeqsUpTo(S, n - 1)
         IN  shorter \cup { Append(q, x) : q \in shorter, x \in S }

FilterCollections == SeqsUpTo(RowPool, MaxRows)

\* 2024-01-15T00:00:00Z as a Date object
date15 == DateObj(<<DaysFromCivil(2024, 1, 15), 0>>)

\* 2024-01-25T00:00:00Z as a Date object
date25 == DateObj(<<DaysFromCivil(2024, 1, 25), 0>>)

\* the values the user gives the control of each filter field; the text
\* input is also cleared
ComboValues ==
    [ name   |-> { Str(sBe), Str(<<>>) },
      grade  |-> { Str(sGold) },
      region |-> { List(<<Str(sKR)>>) },
      date   |-> { Range(date15, Undefined) },
      amount |-> { Range(Str(s60), Undefined) },
      score  |-> { Num(40) },
      active |-> { Bool(TRUE) } ]

\* the (key, value) pairs of ComboValues
ComboInputs == UNION { { <<key, v>> : v \in ComboValues[key] } : key \in DOMAIN ComboValues }

InitFilter == \E rows \in FilterCollections : Mounted(rows, SmallPageSize)

NextFilter ==
    \/ \E term \in SearchTerms : SetSearchTerm(term)
    \/ \E in \in ComboInputs : HandleFilterChange(in[1], in[2])

SpecFilter == InitFilter /\ [][NextFilter]_vars

-----------------------------------------------------------------------------
(* The single-filter specification: the table is mounted on the collection
   the fetch delivered, and the user works one control of the filter panel
   at a time, over every value it delivers, and resets the panel before
   turning to another; no search and no sort *)

\* a record whose amount is a numeric string
row6 == [id |-> Num(6), name |-> Str(sBeta), amount |-> Str(s60)]

\* a record whose score is below zero
row7 == [id |-> Num(7), name |-> Str(sAcme), score |-> Num(-40)]

OneFilterPool == RowPool \cup { row6, row7 }

OneFilterCollections == SeqsUpTo(OneFilterPool, MaxRows)

\* the bounds of a numberRange filter as the two number inputs deliver
\* them: absent while the input was never touched, else the string in the
\* input, which is a number or, once cleared, empty
NumberBounds == { Undefined, Str(<<>>), Str(s0), Str(s60), Str(s100) }

OneFilterValues ==
    [ name   |-> { Str(sBe), Str(sAcme), Str(sNu), Str(<<>>) },
      grade  |-> { Str(sGold), Str(<<>>) },
      region |-> { List(<<>>), List(<<Str(sKR)>>), List(<<Str(sKR), Str(sUS)>>) },
      date   |-> { Range(date15, Undefined), Range(Undefined, date15),
                   Range(date15, date25), Range(date15, date15),
                   Range(Undefined, Undefined) },
      amount |-> { Range(lo, hi) : lo \in NumberBounds, hi \in NumberBounds }
                     \ { Range(Undefined, Undefined) },
      score  |-> SliderValues(filterFields[FindField(filterFields, "score")]),
      active |-> { Bool(TRUE), Bool(FALSE) } ]

\* the (key, value) pairs of OneFilterValues
OneFilterInputs ==
    UNION { { <<key, v>> : v \in OneFilterValues[key] } : key \in DOMAIN OneFilterValues }

\* the user sets the one control that is in use
SetOneControl(key, value) ==
    /\ DOMAIN filters \subseteq {key}
    /\ HandleFilterChange(key, value)

InitOneFilter == \E rows \in OneFilterCollections : Mounted(rows, SmallPageSize)

NextOneFilter ==
    \/ \E in \in OneFilterInputs : SetOneControl(in[1], in[2])
    \/ HandleReset

SpecOneFilter == InitOneFilter /\ [][NextOneFilter]_vars

-----------------------------------------------------------------------------
(* The filter-step specification: one turn of the filter loop, the callback
   of the forEach over the entries of advancedFilters, run on its own on a
   collection and a numberRange value of any shape, the values that the
   number inputs of the panel never deliver among them *)

\* the bounds of the range: absent, '', "0", "60", the numbers 0 and 60,
\* "be", "x60", " 60" and " "
StepBounds ==
    { Undefined, Str(<<>>), Str(s0), Str(s60), Num(0), Num(60),
      Str(sBe), Str(<<120, 54, 48>>), Str(<<32, 54, 48>>), Str(<<32>>) }

StepValues == { Range(lo, hi) : lo \in StepBounds, hi \in StepBounds }

StepCollections == SeqsUpTo({ acme, beta, row4, row5, row6, row7 }, MaxRows)

\* the turn of the loop for the entry [amount, value] on the array rows
ApplyFilterStep ==
    /\ ~applied.done
    /\ applied' = [applied EXCEPT !.out = FilterStep(applied.rows, filterFields, "amount",
                                                     applied.value),
                                  !.done = TRUE]
    /\ UNCHANGED <<tableVars, toastVars, currentPage, lastOp>>

InitStep ==
    /\ TableShown(<<>>, SmallPageSize, <<>>, "all", EmptyMap, NoSort)
    /\ \E rows \in StepCollections, value \in StepValues :
          applied = [rows |-> rows, value |-> value, out |-> <<>>, done |-> FALSE]

NextStep == ApplyFilterStep

SpecStep == InitStep /\ [][NextStep]_vars

-----------------------------------------------------------------------------
(* The search specification: the table is mounted on the collection the
   fetch delivered, and the user types into the search box and picks the
   scope; no filter and no sort *)

\* what is typed into the search box: nothing, lower and upper case letters,
\* digits, the text of a field that is no column, and letters of "null"
WideSearchTerms == { <<>>, sBe, sBE, s100, sGold, sNu }

\* the items of the scope select: 'all' and the key of every column
ScopeItems == { "all" } \cup { columns[i].key : i \in 1..Len(columns) }

InitSearch == \E rows \in FilterCollections : Mounted(rows, SmallPageSize)

NextSearch ==
    \/ \E term \in WideSearchTerms : SetSearchTerm(term)
    \/ \E scope \in ScopeItems : SetSearchColumn(scope)

SpecSearch == InitSearch /\ [][NextSearch]_vars

-----------------------------------------------------------------------------
(* The sort specification: the table is mounted on the collection of up to
   MaxSortRows records that the fetch delivered, and the user clicks the
   column headers *)

\* records whose fields hold values of several kinds: numbers, calendar
\* dates, other strings in upper and lower case, null, and nothing at all
sortA == [id |-> Num(1), name |-> Str(sAcme), date |-> Str(sDay10), amount |-> Num(100)]
sortB == [id |-> Num(2), name |-> Str(sBeta), date |-> Str(sDay20), amount |-> Num(50)]
sortC == [id |-> Num(3), name |-> Str(ToLowerCase(sAcme)), date |-> Null, amount |-> Num(100)]
sortD == [id |-> Num(4), name |-> Null, date |-> Str(sDay10), amount |-> Null]
sortE == [id |-> Num(5), name |-> Num(7), date |-> Num(100)]

SortPool == { sortA, sortB, sortC, sortD, sortE }

MaxSortRows == 4

SortCollections == SeqsUpTo(SortPool, MaxSortRows)

\* the headers clicked in the sort specification
SortColumnKeys == { "name", "amount", "date" }

InitSort == \E rows \in SortCollections : Mounted(rows, SmallPageSize)

NextSort == \E key \in SortColumnKeys : HandleSort(key)

SpecSort == InitSort /\ [][NextSort]_vars

-----------------------------------------------------------------------------
(* The mixed-column specification: as the sort specification, on records
   whose date field holds a number, a date, a string shaped as a date with
   month 13, which no engine parses, or a word *)

mixedNumber == [id |-> Num(1), date |-> Num(3)]
mixedDate   == [id |-> Num(2), date |-> Str(sDay10)]
mixedWrong  == [id |-> Num(3), date |-> Str(<<50, 48, 50, 52, 45, 49, 51, 45, 48, 49>>)]   \* "2024-13-01"
mixedWord   == [id |-> Num(4), date |-> Str(sAcme)]

MixedPool == { mixedNumber, mixedDate, mixedWrong, mixedWord }

MixedCollections == SeqsUpTo(MixedPool, MaxSortRows)

InitMixed == \E rows \in MixedCollections : Mounted(rows, SmallPageSize)

NextMixed == HandleSort("date")

SpecMixed == InitMixed /\ [][NextMixed]_vars

-----------------------------------------------------------------------------
(* The export specification: the table is mounted on the collection the
   fetch delivered, the user searches, filters, sorts and turns pages, and
   then clicks the CSV or the JSON button, on one day or another *)

\* a record whose name holds double quotes and a comma: Say "hi", all
quoted == [id |-> Num(8),
           name |-> Str(<<83, 97, 121, 32, 34, 104, 105, 34, 44, 32, 97, 108, 108>>),
           date |-> Str(sDay20), amount |-> Num(0)]

ExportPool == { acme, beta, row4, quoted }

ExportCollections == SeqsUpTo(ExportPool, MaxRows)

\* the days of the export
ExportDays == { sDay10, sDay20 }

\* the table shows one record a page, or SmallPageSize
\* the filter entries set before an export
ExportFilterInputs == { <<"name", Str(sBe)>>, <<"amount", Range(Str(s60), Undefined)>> }

InitExport ==
    \E size \in { 1, SmallPageSize }, rows \in ExportCollections : Mounted(rows, size)

\* no export has been made yet
BeforeExport == download = NoDownload

NextExport ==
    \/ BeforeExport /\ \E term \in SearchTerms : SetSearchTerm(term)
    \/ BeforeExport /\ \E key \in SortKeys : HandleSort(key)
    \/ BeforeExport /\ \E in \in ExportFilterInputs : HandleFilterChange(in[1], in[2])
    \/ BeforeExport /\ ClickNext
    \/ \E today \in ExportDays : ExportToCSV(today)
    \/ \E today \in ExportDays : ExportToJSON(today)

SpecExport == InitExport /\ [][NextExport]_vars

-----------------------------------------------------------------------------
(* The panel specification: the table is mounted on the collection the
   fetch delivered, the page passes the filter fields or none, and the user
   works the filter panel, setting its controls and clearing them *)

PanelCollections == SeqsUpTo({ acme, row3, row4 }, MaxRows)

\* the (key, value) pairs the panel delivers: a control that is set, and
\* the cleared text input, the select set back to 'all', the multiSelect
\* with its last box unticked, the date range with its day unpicked, the
\* number range with both inputs cleared and the checkbox unticked
PanelInputs ==
    { <<"name", Str(sBe)>>, <<"name", Str(<<>>)>>,
      <<"grade", Str(<<>>)>>,
      <<"region", List(<<Str(sKR)>>)>>, <<"region", List(<<>>)>>,
      <<"date", Range(Undefined, Undefined)>>,
      <<"amount", Range(Str(s60), Undefined)>>, <<"amount", Range(Str(<<>>), Str(<<>>))>>,
      <<"active", Bool(FALSE)>> }

InitPanel == \E rows \in PanelCollections : Mounted(rows, SmallPageSize)

NextPanel ==
    \/ \E in \in PanelInputs : HandleFilterChange(in[1], in[2])
    \/ HandleReset
    \/ \E newFields \in { <<>>, filterFields } : SetFilterFields(newFields)

SpecPanel == InitPanel /\ [][NextPanel]_vars

-----------------------------------------------------------------------------
(* The toast specification: the pages make, update and dismiss toasts, and
   the timers run *)

\* the titles of the toasts of the pages
ToastTitles == { <<79, 75>>, <<70, 97, 105, 108>> }    \* "OK", "Fail"

\* every id that can be given out
ToastIds == { GenId(c) : c \in 0..(MaxCount - 1) }

InitToast == Mounted(<<>>, SmallPageSize)

NextToast ==
    \/ \E title \in ToastTitles : Toast(title)
    \/ \E id \in ToastIds, title \in ToastTitles : UpdateToast(id, title)
    \/ \E id \in ToastIds : Dismiss(id)
    \/ DismissAll
    \/ \E id \in ToastIds : TimerFires(id)

SpecToast == InitToast /\ [][NextToast]_vars

\* a timer that was set runs its callback
SpecToastFair == SpecToast /\ \A id \in ToastIds : WF_vars(TimerFires(id))

-----------------------------------------------------------------------------
(* Properties *)

\* the elements of a sequence
RangeOf(q) == { q[i] : i \in 1..Len(q) }

\* how many times x occurs in q
Count(q, x) == Cardinality({ i \in 1..Len(q) : q[i] = x })

\* C1: in every reachable state currentPage lies in [1, max(1, totalPages)],
\* also after the collection was replaced by a shorter one.
C1_PageInRange == currentPage >= 1 /\ currentPage <= Max(1, totalPages)

\* C2: a step that changes the search term, the search scope, the filter map
\* or the sort directive ends on page 1, whatever page was shown before.
C2_ResetOnChange ==
    [][ (\/ searchTerm' # searchTerm
         \/ searchColumn' # searchColumn
         \/ advancedFilters' # advancedFilters
         \/ sortConfig' # sortConfig) => currentPage' = 1 ]_vars

\* C2 witness: the search term was changed while a page after the first was
\* shown, and page 1 is shown now.
C2_Witness ==
    /\ lastOp.op = "setSearchTerm"
    /\ lastOp.from > 1
    /\ searchTerm # <<>>
    /\ currentPage = 1

\* C3: handlePageChange(p) with p < 1 or p > totalPages changes nothing;
\* with 1 <= p <= totalPages it sets currentPage to p and changes nothing else.
C3_PageChange ==
    [][ lastOp'.op = "handlePageChange" =>
          /\ currentPage' = IF lastOp'.arg >= 1 /\ lastOp'.arg <= totalPages
                            THEN lastOp'.arg ELSE currentPage
          /\ UNCHANGED <<data, pageSize, searchTerm, searchColumn, filters,
                         advancedFilters, sortConfig, filteredData>> ]_vars

\* C3 witness: a request for a page after the last one was made on a later
\* page of a table of several pages, and that page is still shown.
C3_Witness ==
    /\ lastOp.op = "handlePageChange"
    /\ totalPages >= 2
    /\ lastOp.arg > totalPages
    /\ lastOp.from = 2
    /\ currentPage = 2

RECURSIVE ConcatPages(_, _, _)
\* the slices of pages 1 .. k, one after the other
ConcatPages(rows, size, k) ==
    IF k = 0 THEN <<>>
    ELSE ConcatPages(rows, size, k - 1) \o PaginatedDataOf(rows, k, size)

\* C4: totalPages is ceil(n / pageSize) (0 for n = 0); page k is the rows at
\* the 0-based indices [(k-1)*pageSize, k*pageSize); the pages 1..totalPages
\* put together are filteredData; every page but the last has pageSize rows.
C4_PagesPartition ==
    LET n == Len(filteredData)
    IN  /\ (n = 0 => totalPages = 0)
        /\ (n > 0 => totalPages * pageSize >= n /\ (totalPages - 1) * pageSize < n)
        /\ \A k \in 1..totalPages :
              LET first == (k - 1) * pageSize
                  howMany  == Min(k * pageSize, n) - first
              IN  PaginatedDataOf(filteredData, k, pageSize)
                      = [i \in 1..howMany |-> filteredData[first + i]]
        /\ ConcatPages(filteredData, pageSize, totalPages) = filteredData
        /\ \A k \in 1..(totalPages - 1) :
              Len(PaginatedDataOf(filteredData, k, pageSize)) = pageSize

\* C4 witness: 25 rows and pageSize 15 give two pages, of 15 and of 10 rows.
C4_Witness ==
    /\ Len(filteredData) = 25
    /\ pageSize = 15
    /\ totalPages = 2
    /\ Len(PaginatedDataOf(filteredData, 1, pageSize)) = 15
    /\ Len(PaginatedDataOf(filteredData, 2, pageSize)) = 10

\* C5: for currentPage in 1..totalPages, two page numbers that follow one
\* another in the list of getVisiblePages are adjacent integers: every gap
\* has an ellipsis in it.
C5_EllipsisBridgesGaps ==
    (currentPage >= 1 /\ currentPage <= totalPages) =>
        \A i \in 1..(Len(visiblePages) - 1) :
            (visiblePages[i].t = "number" /\ visiblePages[i + 1].t = "number")
                => visiblePages[i + 1].n = visiblePages[i].n + 1

\* C6: for totalPages >= 2 and currentPage in 1..totalPages the list of
\* getVisiblePages holds page 1, page totalPages and every page within 2 of
\* currentPage exactly once, and its page numbers are strictly ascending.
C6_WindowAndEndpoints ==
    (totalPages >= 2 /\ currentPage >= 1 /\ currentPage <= totalPages) =>
        /\ \A p \in 1..totalPages :
              (p = 1 \/ p = totalPages \/ (p - currentPage \in -2..2))
                  => Count(visiblePages, Num(p)) = 1
        /\ \A i, j \in 1..Len(visiblePages) :
              (i < j /\ visiblePages[i].t = "number" /\ visiblePages[j].t = "number")
                  => visiblePages[i].n < visiblePages[j].n

\* C6 witness: page 5 of at least 9 pages is shown after a click, so the
\* window 3..7 touches neither end.
C6_Witness ==
    /\ lastOp.op = "handlePageChange"
    /\ currentPage = 5
    /\ totalPages >= 9
    /\ Count(visiblePages, Num(3)) = 1
    /\ Count(visiblePages, Num(7)) = 1

\* C7: when totalPages <= 1 the list of getVisiblePages is exactly [1].
C7_SinglePageList == totalPages <= 1 => visiblePages = <<Num(1)>>

RECURSIVE IsSubsequence(_, _)
\* q can be had from rows by deleting elements
IsSubsequence(q, rows) ==
    IF q = <<>> THEN TRUE
    ELSE IF rows = <<>> THEN FALSE
    ELSE IF q[1] = rows[1] THEN IsSubsequence(Tail(q), Tail(rows))
    ELSE IsSubsequence(q, Tail(rows))

\* C8: filteredData holds records of data only, none more often than data
\* does, so it is no longer than data; without a sort directive the records
\* kept are in the order they have in data.
C8_SubCollection ==
    /\ \A r \in RangeOf(filteredData) : Count(filteredData, r) <= Count(data, r)
    /\ Len(filteredData) <= Len(data)
    /\ (sortConfig = NoSort => IsSubsequence(filteredData, data))

\* C8 witness: of two different records the fetch delivered, with filters set
\* and no sort directive, the second alone is kept.
C8_Witness ==
    /\ lastOp.op = "handleFilterChange"
    /\ sortConfig = NoSort
    /\ DOMAIN advancedFilters # {}
    /\ Len(data) = 2
    /\ data[1] # data[2]
    /\ filteredData = <<data[2]>>

\* an entry of the filter map that constrains: its value is not empty and a
\* filter field has its key
ActiveKeys == { key \in DOMAIN advancedFilters :
                    EntryApplies(filterFieldsProp, key, advancedFilters[key]) }

\* the record satisfies the search predicate
SatisfiesSearch(row) ==
    searchTerm = <<>> \/ SearchMatch(row, searchTerm, searchColumn, columns)

\* the record satisfies the active filter entry of that key
SatisfiesFilter(row, key) ==
    FilterPass(filterFieldsProp[FindField(filterFieldsProp, key)].type, Get(row, key),
               advancedFilters[key])

\* C9: a record of data is in filteredData exactly if it satisfies the search
\* predicate and every active filter.
C9_Conjunction ==
    \A i \in 1..Len(data) :
        (data[i] \in RangeOf(filteredData))
            <=> (SatisfiesSearch(data[i]) /\ \A key \in ActiveKeys : SatisfiesFilter(data[i], key))

\* C9 witness: with a search term and two active filters, a record that
\* satisfies the search and one filter but not the other is dropped, next to
\* a record that is kept.
C9_Witness ==
    /\ lastOp.op = "handleFilterChange"
    /\ searchTerm # <<>>
    /\ Cardinality(ActiveKeys) = 2
    /\ filteredData # <<>>
    /\ \E i \in 1..Len(data) :
          /\ data[i] \notin RangeOf(filteredData)
          /\ SatisfiesSearch(data[i])
          /\ \E k1, k2 \in ActiveKeys :
                SatisfiesFilter(data[i], k1) /\ ~SatisfiesFilter(data[i], k2)

\* a bound of a numberRange filter is present when it is a number or a
\* numeric string
BoundPresent(b) == ParseFloat(b).t = "number"

\* what C10 says a numberRange filter keeps
InNumberRange(rowValue, value) ==
    LET v == ParseFloat(rowValue)
    IN  /\ BoundPresent(value.lo) => NumGeq(v, ParseFloat(value.lo))
        /\ BoundPresent(value.hi) => NumGeq(ParseFloat(value.hi), v)

\* C10: a numberRange filter {min?, max?} keeps exactly the records whose
\* field value v, parsed as a number, has v >= min when min is present and
\* v <= max when max is present, the bound being a numeric string or a number.
C10_NumberRangeInclusive ==
    (DOMAIN advancedFilters = {"amount"} /\ searchTerm = <<>>) =>
        \A i \in 1..Len(data) :
            (data[i] \in RangeOf(filteredData))
                <=> InNumberRange(Get(data[i], "amount"), advancedFilters["amount"])

\* C11: a slider filter set to s keeps exactly the records whose field value,
\* as a number, is >= s, for every value s the slider delivers between the
\* field's min and max.
C11_SliderKeepsAtLeast ==
    (DOMAIN advancedFilters = {"score"} /\ searchTerm = <<>>) =>
        \A i \in 1..Len(data) :
            (data[i] \in RangeOf(filteredData))
                <=> NumGeq(ParseFloat(Get(data[i], "score")), advancedFilters["score"])

\* a <= b on time values, false when either is NaN
TimeLeq(a, b) == ~IsNaNTime(a) /\ ~IsNaNTime(b) /\ ~TimeLess(b, a)

\* what C12 says a dateRange filter keeps: the date of the record is not
\* before from when from is given, and not after to when to is given
InDateRange(rowValue, value) ==
    LET d == DateTime(rowValue)
    IN  /\ value.lo # Undefined => TimeLeq(DateTime(value.lo), d)
        /\ value.hi # Undefined => TimeLeq(d, DateTime(value.hi))

\* C12: a dateRange filter {from?, to?} keeps exactly the records whose field
\* value, parsed as a date, is >= from when from is present and <= to when to
\* is present; a missing bound does not constrain.
C12_DateRangeBounds ==
    (DOMAIN advancedFilters = {"date"} /\ searchTerm = <<>>) =>
        \A i \in 1..Len(data) :
            (data[i] \in RangeOf(filteredData))
                <=> InDateRange(Get(data[i], "date"), advancedFilters["date"])

\* C13: a text filter with the non-empty value t keeps exactly the records
\* whose field value, as a string, contains t without regard to case, a null
\* or missing value being the empty string, so that such a record is never
\* kept.
C13_TextFilterContains ==
    (DOMAIN advancedFilters = {"name"} /\ Truthy(advancedFilters["name"]) /\ searchTerm = <<>>) =>
        \A i \in 1..Len(data) :
            (data[i] \in RangeOf(filteredData))
                <=> Includes(ToLowerCase(StrOrEmpty(Get(data[i], "name"))),
                             ToLowerCase(advancedFilters["name"].s))

\* the values C14 calls empty: undefined, the empty string, the empty list,
\* false, and a range object with neither bound set
IsEmptyValue(v) ==
    \/ v \in { Undefined, Str(<<>>), List(<<>>), Bool(FALSE) }
    \/ v.t = "range" /\ v.lo \in { Undefined, Str(<<>>) } /\ v.hi \in { Undefined, Str(<<>>) }

\* the entries of the filter map that C14 says do not constrain
InertKeys ==
    { key \in DOMAIN advancedFilters :
        IsEmptyValue(advancedFilters[key]) \/ FindField(filterFieldsProp, key) = 0 }

\* the map m without the entry of key
Without(m, key) == [k \in (DOMAIN m) \ {key} |-> m[k]]

\* C14: an entry of the filter map whose value is empty, or whose key is the
\* key of no filter field, excludes no record: filteredData is what it would
\* be without the entry.
C14_EmptyEntryInert ==
    \A key \in InertKeys :
        filteredData = Memo(data, searchTerm, searchColumn,
                            Without(advancedFilters, key), sortConfig)

\* C14 witness: next to an entry that constrains and drops a record, the
\* filter map holds an empty multiSelect list, and a record is kept.
C14_Witness ==
    /\ lastOp.op = "handleFilterChange"
    /\ "region" \in DOMAIN advancedFilters
    /\ advancedFilters["region"] = List(<<>>)
    /\ Cardinality(ActiveKeys) = 1
    /\ Len(filteredData) = 1
    /\ Len(data) = 2

\* the value is there and its string contains the term, letters compared
\* without regard to case
ContainsTerm(v, term) ==
    ~IsNullish(v) /\ Includes(ToLowerCase(ToStr(v)), ToLowerCase(term))

\* C15: with an empty term the search keeps every record; with a term and
\* scope "all" it keeps the records of which some column's value contains
\* the term, with a column key as scope those of which that column's value
\* does; case is ignored and a null or missing value never matches.
C15_SearchPredicate ==
    \A i \in 1..Len(data) :
        (data[i] \in RangeOf(filteredData))
            <=> \/ searchTerm = <<>>
                \/ /\ searchColumn = "all"
                   /\ \E c \in 1..Len(columns) :
                         ContainsTerm(Get(data[i], columns[c].key), searchTerm)
                \/ /\ searchColumn # "all"
                   /\ ContainsTerm(Get(data[i], searchColumn), searchTerm)

\* C15 witness: scenario B, the term "be" with scope name keeps Beta alone.
C15_Witness ==
    /\ lastOp.op = "setSearchTerm"
    /\ searchTerm = sBe
    /\ searchColumn = "name"
    /\ data = <<acme, beta>>
    /\ filteredData = <<beta>>

\* the value of the sort key in a record
KeyOf(row) == Get(row, sortConfig.key)

\* C16: under a sort directive on key k, ascending or descending, every
\* record whose k is null or undefined comes after every record whose k is
\* neither, in every engine.
C16_NullsLast ==
    sortConfig # NoSort =>
        \A p, q \in 1..Len(filteredData) :
            (IsNullish(KeyOf(filteredData[p])) /\ ~IsNullish(KeyOf(filteredData[q])))
                => q < p

\* C16 witness: scenario E; sorted descending by amount after two clicks, a
\* collection that starts with a record without amount and goes on with
\* records that have one shows the record without amount last.
C16_Witness ==
    /\ lastOp.op = "handleSort"
    /\ sortConfig = [key |-> "amount", direction |-> "desc"]
    /\ Len(data) >= 3
    /\ IsNullish(Get(data[1], "amount"))
    /\ \A i \in 2..Len(data) : ~IsNullish(Get(data[i], "amount"))
    /\ filteredData[Len(filteredData)] = data[1]

\* two records tie on the sort key: their values are equal, or both are
\* null or undefined
Tie(x, y) ==
    \/ IsNullish(KeyOf(x)) /\ IsNullish(KeyOf(y))
    \/ KeyOf(x) = KeyOf(y)

\* filteredData as it is under the same key and the other direction
OtherDirection ==
    Memo(data, searchTerm, searchColumn, advancedFilters,
         [key |-> sortConfig.key,
          direction |-> IF sortConfig.direction = "asc" THEN "desc" ELSE "asc"])

\* C17: the sort is stable in both directions: the records that tie on the
\* sort key, those without a value among them, are in the order they have in
\* the input; and the other direction on the same key reverses the order of
\* the records that do not tie.
C17_StableBothDirections ==
    (sortConfig # NoSort /\ searchTerm = <<>> /\ DOMAIN advancedFilters = {}) =>
        /\ \A r \in RangeOf(data) :
              SelectSeq(filteredData, LAMBDA x : Tie(x, r))
                  = SelectSeq(data, LAMBDA x : Tie(x, r))
        /\ \A p, q \in 1..Len(filteredData) :
              (/\ p < q
               /\ ~IsNullish(KeyOf(filteredData[p]))
               /\ ~IsNullish(KeyOf(filteredData[q]))
               /\ Comparator(filteredData[p], filteredData[q], sortConfig) # 0)
                  => \A i, j \in 1..Len(OtherDirection) :
                        (OtherDirection[i] = filteredData[p] /\ OtherDirection[j] = filteredData[q])
                            => j < i

\* C18: the sort directive is none at first and changes by header clicks
\* only; a click on column k makes it {k, desc} if it was {k, asc} and
\* {k, asc} in every other case (none, another column, or {k, desc}); it
\* holds one key and never goes back to none.
C18_SortStateMachine ==
    /\ sortConfig = NoSort
    /\ [][ /\ (lastOp'.op = "handleSort") =>
                (sortConfig' = IF sortConfig = [key |-> lastOp'.arg, direction |-> "asc"]
                               THEN [key |-> lastOp'.arg, direction |-> "desc"]
                               ELSE [key |-> lastOp'.arg, direction |-> "asc"])
           /\ (lastOp'.op # "handleSort") => (sortConfig' = sortConfig)
           /\ (sortConfig # NoSort) => (sortConfig' # NoSort) ]_vars

\* C18 witness: scenario C; the second click on the amount header has made
\* the directive {amount, desc}, and the amounts are shown as 100, 50, none.
C18_Witness ==
    /\ lastOp.op = "handleSort"
    /\ lastOp.arg = "amount"
    /\ sortConfig = [key |-> "amount", direction |-> "desc"]
    /\ data = <<row2, row1, row3, row4, row5>>
    /\ filteredData = <<row1, row2, row4, row5, row3>>

\* -1, 0 or 1 as x is below, at or above y
Sign(x, y) == IF x < y THEN -1 ELSE IF x = y THEN 0 ELSE 1

\* a comes before b in the dictionary: at the first index where they differ
\* a has the smaller code unit, or a ends there and b goes on
LexLess(a, b) ==
    \E k \in 0..Min(Len(a), Len(b)) :
        /\ SubSeq(a, 1, k) = SubSeq(b, 1, k)
        /\ \/ k = Len(a) /\ k < Len(b)
           \/ k < Len(a) /\ k < Len(b) /\ a[k + 1] < b[k + 1]

\* the order C19 gives two non-null values, ascending: as numbers when both
\* are numbers, else by time when both parse as dates, else as strings
\* without regard to case
NaturalOrder(u, v) ==
    LET du == DateTime(u)
        dv == DateTime(v)
        su == ToLowerCase(ToStr(u))
        sv == ToLowerCase(ToStr(v))
    IN  IF u.t = "number" /\ v.t = "number" THEN Sign(u.n, v.n)
        ELSE IF du # <<>> /\ dv # <<>>
        THEN (IF du[1] # dv[1] THEN Sign(du[1], dv[1]) ELSE Sign(du[2], dv[2]))
        ELSE IF LexLess(su, sv) THEN -1
        ELSE IF LexLess(sv, su) THEN 1
        ELSE 0

\* the same under the sort directive: ascending as it is, descending inverted
DirectedOrder(u, v) ==
    IF sortConfig.direction = "asc" THEN NaturalOrder(u, v) ELSE 0 - NaturalOrder(u, v)

\* C19: for two non-null values the comparator compares numbers when both
\* are numbers, else timestamps when both parse as dates, else lower-cased
\* strings; asc takes that result and desc its inverse; and the records
\* with a value are shown in that order.
C19_ComparatorPerPair ==
    sortConfig # NoSort =>
        /\ \A i, j \in 1..Len(data) :
              (~IsNullish(KeyOf(data[i])) /\ ~IsNullish(KeyOf(data[j])))
                  => Comparator(data[i], data[j], sortConfig)
                        = DirectedOrder(KeyOf(data[i]), KeyOf(data[j]))
        /\ \A p, q \in 1..Len(filteredData) :
              (p < q /\ ~IsNullish(KeyOf(filteredData[p])) /\ ~IsNullish(KeyOf(filteredData[q])))
                  => DirectedOrder(KeyOf(filteredData[p]), KeyOf(filteredData[q])) <= 0

\* C19 witness: sorted by name, descending, the number 7 and the names
\* "acme" and "Beta" are shown as Beta, acme, 7: compared as strings, without
\* regard to case.
C19_Witness ==
    /\ lastOp.op = "handleSort"
    /\ sortConfig = [key |-> "name", direction |-> "desc"]
    /\ data = <<sortE, sortC, sortB>>
    /\ filteredData = <<sortB, sortC, sortE>>

\* the first line of a text: what comes before its first newline
FirstLine(cs) ==
    IF \E i \in 1..Len(cs) : cs[i] = 10
    THEN SubSeq(cs, 1, (CHOOSE i \in 1..Len(cs) :
                            cs[i] = 10 /\ \A j \in 1..(i - 1) : cs[j] # 10) - 1)
    ELSE cs

\* the header row C20 describes: every label between double quotes
CsvHeaderQuoted(cols) ==
    Join([c \in 1..Len(cols) |-> <<34>> \o cols[c].label \o <<34>>], <<44>>)

\* C20: the first row of the exported CSV is the labels of the columns, in
\* column order, joined by commas, each label wrapped in double quotes.
C20_HeaderQuoted ==
    download.type = "text/csv;charset=utf-8;" =>
        FirstLine(download.content) = CsvHeaderQuoted(columns)

\* the cell C21 describes: the string of the value, nothing for a null or
\* missing value, its double quotes doubled, between double quotes
CsvCellRaw(value) ==
    <<34>> \o DoubleQuotes(IF IsNullish(value) THEN <<>> ELSE ToStr(value)) \o <<34>>

\* the lines of a text: what its newlines separate
Lines(cs) ==
    LET breaks == { i \in 1..Len(cs) : cs[i] = 10 } \cup { 0, Len(cs) + 1 }
    IN  { SubSeq(cs, i + 1, j - 1) :
            <<i, j>> \in { p \in breaks \X breaks :
                            p[1] < p[2] /\ \A k \in breaks : ~(p[1] < k /\ k < p[2]) } }

\* C21: right after a CSV export, the row of every record of filteredData
\* is in the file with each cell the raw value of the column as a string,
\* quotes doubled and wrapped in quotes; only a null or missing value gives
\* an empty cell, so 0 and false are exported as "0" and "false".
C21_CellsRaw ==
    lastOp.op = "exportToCSV" =>
        \A r \in 1..Len(filteredData) :
            Join([c \in 1..Len(columns) |->
                    CsvCellRaw(Get(filteredData[r], columns[c].key))], <<44>>)
                \in Lines(download.content)

RECURSIVE SplitLines(_)
\* the lines of a text, in order
SplitLines(cs) ==
    IF \A i \in 1..Len(cs) : cs[i] # 10 THEN <<cs>>
    ELSE <<FirstLine(cs)>> \o SplitLines(SubSeq(cs, Len(FirstLine(cs)) + 2, Len(cs)))

\* the lines of a JSON text that hold the id of an element
IdLines(cs) ==
    SelectSeq(SplitLines(cs),
              LAMBDA l : Len(l) >= 9 /\ SubSeq(l, 1, 9) = <<32, 32, 32, 32, 34, 105, 100, 34, 58>>)

\* C22: an export serializes the whole of filteredData, whatever page is
\* shown: the CSV has the header and then one row for each record of
\* filteredData, in its order; the JSON text is [] for no record and else
\* has one element for each record of filteredData, in its order.
C22_ExportsWholeView ==
    /\ lastOp.op = "exportToCSV" =>
          LET ls == SplitLines(download.content)
          IN  /\ Len(ls) = 1 + Len(filteredData)
              /\ \A k \in 1..Len(filteredData) : ls[k + 1] = CsvRow(filteredData[k], columns)
    /\ lastOp.op = "exportToJSON" =>
          LET ls  == SplitLines(download.content)
              ids == IdLines(download.content)
          IN  /\ filteredData = <<>> => download.content = <<91, 93>>
              /\ Cardinality({ i \in 1..Len(ls) : ls[i] = <<32, 32, 123>> }) = Len(filteredData)
              /\ Len(ids) = Len(filteredData)
              /\ \A k \in 1..Len(filteredData) :
                    SubSeq(ids[k], 11, 10 + Len(ToStr(filteredData[k].id)))
                        = ToStr(filteredData[k].id)

\* C22 witness: one record a page, page 2 of 2 shown, the two records sorted
\* into another order than they were fetched in: the JSON export was made.
C22_Witness ==
    /\ lastOp.op = "exportToJSON"
    /\ pageSize = 1
    /\ currentPage = 2
    /\ sortConfig # NoSort
    /\ Len(filteredData) = 2
    /\ filteredData # data
    /\ Len(IdLines(download.content)) = 2

\* C23: "no data" is shown exactly when data is empty, "no results" exactly
\* when data has records and filteredData has none, and no message is shown
\* while filteredData has a record.
C23_EmptyStatesApart ==
    /\ (emptyStateMessage = "noData") <=> (Len(data) = 0)
    /\ (emptyStateMessage = "noResults") <=> (Len(data) > 0 /\ Len(filteredData) = 0)
    /\ Len(filteredData) > 0 => emptyStateMessage = "none"

\* C24: no operation on the table changes the input collection: but for
\* the page handing in another collection, the elements of data and their
\* order are after every step what they were before it.
C24_DataNotMutated == [][lastOp'.op # "setData" => data' = data]_vars

\* C24 witness: with no search term and no filter entry, a click on a header
\* put the view in another order than data, and the view was then exported.
C24_Witness ==
    /\ lastOp.op = "exportToCSV"
    /\ searchTerm = <<>>
    /\ DOMAIN advancedFilters = {}
    /\ sortConfig # NoSort
    /\ Len(data) = 2
    /\ filteredData # data
    /\ \A i \in 1..2 : \E j \in 1..2 : filteredData[i] = data[j]

\* C25: the view is a function of the current inputs only: in every state,
\* however it was reached and however often the view was recomputed on the
\* way, filteredData is what one computation from the present collection,
\* search state, filter map and sort directive yields.
C25_ViewOfCurrentInputs ==
    filteredData = ComputeFilteredData(data, searchTerm, searchColumn, advancedFilters,
                                       filterFields, columns, sortConfig, engine)

\* C25 witness: the filter map is empty again after a reset, with a search
\* term set and under a sort that shows the five records in another order
\* than they were fetched in, or the records found among them.
C25_Witness ==
    /\ lastOp.op = "handleReset"
    /\ DOMAIN advancedFilters = {}
    /\ sortConfig # NoSort
    /\ Len(data) = 5
    /\ \/ searchTerm = <<>> /\ Len(filteredData) = 5 /\ filteredData # data
       \/ searchTerm # <<>> /\ Len(filteredData) = 2

\* C26: the toast state never holds more than TOAST_LIMIT toasts, and
\* after a call of toast() it holds the toast just added, open.
C26_AtMostLimitNewestKept ==
    /\ Len(toasts) <= TOAST_LIMIT
    /\ lastOp.op = "toast" =>
          /\ Len(toasts) = 1
          /\ toasts[1].id = GenId(count - 1)
          /\ toasts[1].open

\* C26 witness: a second toast was added while the first was in the state,
\* dismissed and waiting for its removal.
C26_Witness ==
    /\ lastOp.op = "toast"
    /\ count = 2
    /\ toastTimeouts = { GenId(0) }
    /\ Len(toasts) = 1
    /\ toasts[1].id = GenId(1)

\* the toast of id is in the state
InState(id) == \E i \in 1..Len(toasts) : toasts[i].id = id

\* C27: every toast added is in time removed from the state by the timer of
\* its id, and no id ever has more than one timer waiting.
C27_EveryToastRemoved ==
    /\ \A id \in ToastIds : InState(id) ~> ~InState(id)
    /\ [](\A id \in DOMAIN pending : pending[id] <= 1)

\* b is a string that is not empty and, past its leading white space, does
\* not start as a number
InvalidBound(b) ==
    /\ b.t = "string"
    /\ b.s # <<>>
    /\ LET start == SpaceRun(b.s, 1) + 1
       IN  /\ ~(start <= Len(b.s) /\ IsDigit(b.s[start]))
           /\ ~(/\ start < Len(b.s)
                /\ b.s[start] \in {43, 45}
                /\ IsDigit(b.s[start + 1]))

\* the range with its invalid bounds taken out
ValidPart(range) ==
    Range(IF InvalidBound(range.lo) THEN Undefined ELSE range.lo,
          IF InvalidBound(range.hi) THEN Undefined ELSE range.hi)

\* C28: a numberRange bound that is no number acts as an absent bound: the
\* turn of the filter loop keeps the records that it keeps for the same
\* range without that bound, so the bound excludes no record and the other
\* bound constrains as it does alone.
C28_InvalidBoundAbsent ==
    (/\ applied.done
     /\ InvalidBound(applied.value.lo) \/ InvalidBound(applied.value.hi))
    => applied.out = FilterStep(applied.rows, filterFields, "amount", ValidPart(applied.value))

\* C28 witness: the lower bound is "be" and the upper bound "60"; of the
\* records with the amounts 100 and 50 the first is left out.
C28_Witness ==
    /\ applied.done
    /\ applied.value = Range(Str(sBe), Str(s60))
    /\ applied.rows = <<acme, beta>>
    /\ applied.out = <<beta>>

\* C29: while the filter panel is mounted, the map it holds and shows is
\* the map the table applies.
C29_PanelShowsApplied == Len(filterFieldsProp) > 0 => filters = advancedFilters

\* the records of the view whose sort key is neither null nor undefined
WithKey == SelectSeq(filteredData, LAMBDA row : ~IsNullish(KeyOf(row)))

\* C30: under a sort directive the comparator orders the non-null values of
\* the column consistently: of two records one is before the other exactly
\* when the other is after it, before is transitive, and in the view no
\* record with a value stands before one the comparator puts in front of it.
C30_ComparatorConsistent ==
    sortConfig # NoSort =>
        /\ \A i, j \in 1..Len(WithKey) :
              Sign(Comparator(WithKey[i], WithKey[j], sortConfig), 0)
                  = Sign(0, Comparator(WithKey[j], WithKey[i], sortConfig))
        /\ \A i, j, k \in 1..Len(WithKey) :
              (/\ Comparator(WithKey[i], WithKey[j], sortConfig) < 0
               /\ Comparator(WithKey[j], WithKey[k], sortConfig) < 0)
              => Comparator(WithKey[i], WithKey[k], sortConfig) < 0
        /\ \A i, j \in 1..Len(WithKey) :
              i < j => Comparator(WithKey[i], WithKey[j], sortConfig) <= 0

=============================================================================
